---- MODULE Spec2Model ----
(***************************************************************************)
(* Verification model of the HubSpot extractor (keboola/component-hubspot-v2)*)
(*                                                                         *)
(*   src/src/client/client.py   HubspotClient: pagination, status checks,  *)
(*                              retry settings, association batches        *)
(*   src/src/component.py       Component: table handlers, run order and   *)
(*                              run state, association edges               *)
(*   src/src/configuration.py   Configuration: endpoints, fetch settings   *)
(*   src/src/table_handler.py   TableHandler                               *)
(*   src/src/json_parser.py     FlattenJsonParser                          *)
(*                                                                         *)
(* Python dicts are functions from keys (strings) to values; a key that is *)
(* not in the dict is not in the DOMAIN.  Python lists are sequences.      *)
(* None is the string "None".                                              *)
(***************************************************************************)
EXTENDS Integers, Sequences, FiniteSets, TLC

None == "None"

\* ------------------------------------------------------------------------
\* Bounds of the model
\* ------------------------------------------------------------------------

\* requests one pagination may issue before the model stops following it
MaxRequests == 3

\* ------------------------------------------------------------------------
\* Program constants (client.py)
\* ------------------------------------------------------------------------

DEFAULT_V1_LIMIT == 1000
PAGE_MAX_SIZE == 100
PAGE_WITH_HISTORY_MAX_SIZE == 50
BATCH_LIMIT == 100

ENDPOINT_CAMPAIGNS_BY_ID == "email/public/v1/campaigns/by-id"
ENDPOINTS_CONTACT_LISTS == "contacts/v1/lists/"
ENDPOINT_FORMS == "marketing/v3/forms/"
ENDPOINT_EMAIL_EVENTS == "email/public/v1/events"
ENDPOINT_EMAIL_STATISTICS == "marketing-emails/v1/emails/with-statistics"

EVENT_TYPES == <<"DEFERRED", "CLICK", "DROPPED", "DELIVERED", "PROCESSED", "OPEN", "BOUNCE", "SENT">>

\* ------------------------------------------------------------------------
\* Dict helpers
\* ------------------------------------------------------------------------

EmptyDict == [k \in {} |-> None]

\* d[k] = v
DictSet(d, k, v) == [x \in (DOMAIN d) \cup {k} |-> IF x = k THEN v ELSE d[x]]

\* ------------------------------------------------------------------------
\* State
\* ------------------------------------------------------------------------

VARIABLES
    pg_pc,          \* _get_paged_result_pages: "idle" | "running" | "done" | "raised"
    pg_endpoint,    \* its endpoint argument
    res_obj_name,   \* its res_obj_name argument
    parameters,     \* its parameters dict (mutated in place)
    offset,         \* its local offset
    limit,          \* its limit argument
    has_more,       \* its local has_more
    pg_requests,    \* params of every get_raw call of the current pagination
    pg_responses,   \* what get_raw returned (or raised) for each of them
    pg_pages,       \* the pages yielded by the current pagination
    pg_error,       \* the exception that ended it, None if none
    events_left,    \* get_email_events: event types still to page through
    pg_initial      \* the parameters dict as the caller handed it over

pgvars == <<pg_pc, pg_endpoint, res_obj_name, parameters, offset, limit, has_more,
            pg_requests, pg_responses, pg_pages, pg_error, events_left, pg_initial>>

\* ------------------------------------------------------------------------
\* Cursor-token (v3) pagination: state
\* ------------------------------------------------------------------------

VARIABLES
    v3_pc,          \* "idle" | "running" | "done" | "raised"
    v3_path,        \* "raw" (_get_paged_result_pages_v3) | "object" (_paginate_v3_object)
                    \* | "search" (_paginate_v3_object_search)
    v3_endpoint,    \* endpoint / endpoint_name argument
    v3_parameters,  \* raw: the parameters dict; object: {after}; search: the search request
    v3_requests,    \* arguments of every request of the current pagination
    v3_responses,   \* what each request returned (or raised)
    v3_pages,       \* the pages yielded
    v3_error        \* the exception that ended it, None if none

v3vars == <<v3_pc, v3_path, v3_endpoint, v3_parameters, v3_requests, v3_responses,
            v3_pages, v3_error>>

\* ------------------------------------------------------------------------
\* Component (component.py): state of a run and what it persists
\* ------------------------------------------------------------------------

VARIABLES
    run_pc,               \* "idle" | "fetching" | "closed" | "failed"
    state_file,           \* the persisted state file: handler name -> committed columns
    state,                \* self.state
    _table_handler_cache, \* self._table_handler_cache: handler name ->
                          \*   [column_names: table_definition.column_names,
                          \*    fieldnames: writer.fieldnames,
                          \*    column_metadata: table_metadata.column_metadata]
    manifests,            \* handler name -> column list of the manifest last written
    endpoints_todo,       \* enabled endpoints not yet processed in this run
    current_endpoint,     \* the endpoint being fetched, None between endpoints
    candidate,            \* handler name -> field names of the schema it was opened from
    opened_with,          \* handler name -> the column list its writer was opened with
    row_columns,          \* handler name -> columns carried by the rows written in this run
    first_observed,       \* handler name -> for every written row that carried a column no
                          \*   earlier row of the run carried, the set of those columns
    manifest_column_metadata  \* handler name -> column metadata of the manifest last written

runvars == <<run_pc, state_file, state, _table_handler_cache, manifests, endpoints_todo,
             current_endpoint, candidate, opened_with, row_columns, first_observed,
             manifest_column_metadata>>

\* ------------------------------------------------------------------------
\* TableHandler (table_handler.py): one handler and the last operation on it
\* ------------------------------------------------------------------------

VARIABLES
    th_fieldnames,       \* self.writer.fieldnames
    th_columns,          \* self.table_definition.columns
    th_column_metadata,  \* self.table_definition.table_metadata.column_metadata: a dict
                         \*   in insertion order, each entry <<column name, value>>
    th_primary_key,      \* self.table_definition.primary_key
    th_op,               \* the last operation: "none" | "__init__" | "shorten" | "swap"
    th_column_swaps,     \* the column_swaps argument of the last swap
    th_before            \* the four fields as they were before the last operation

thvars == <<th_fieldnames, th_columns, th_column_metadata, th_primary_key, th_op,
            th_column_swaps, th_before>>

\* ------------------------------------------------------------------------
\* FlattenJsonParser (json_parser.py): the last parse_row call
\* ------------------------------------------------------------------------

VARIABLES
    fl_pc,            \* "idle" | "parsed" (parse_row of a record)
                      \* | "parsed_separator" (of a record with the separator in a key)
                      \* | "reparsed" (parse_row of the previous result)
    max_parsing_depth,\* self.max_parsing_depth
    fl_row,           \* the row argument of the last parse_row call
    fl_parsed         \* what the call returned

flvars == <<fl_pc, max_parsing_depth, fl_row, fl_parsed>>

\* ------------------------------------------------------------------------
\* HubspotClient.get_associations (client.py): the batch reads of one call
\* ------------------------------------------------------------------------

VARIABLES
    as_pc,          \* "idle" | "running" | "done" | "raised" (get_associations)
                    \* | "divided" (divide_chunks called on its own)
    as_object_ids,  \* the ids the generator argument yields / the list to divide
    as_list_len,    \* the list_len argument of divide_chunks
    as_chunks,      \* the chunks divide_chunks yields
    as_requests,    \* the inputs of every batch_api.read call so far
    as_error        \* the exception that ended the call, None if none

asvars == <<as_pc, as_object_ids, as_list_len, as_chunks, as_requests, as_error>>

\* ------------------------------------------------------------------------
\* Component._parse_association_v4 (component.py): the last call
\* ------------------------------------------------------------------------

VARIABLES
    pa_pc,              \* "idle" | "parsed"
    raw_data,           \* the raw_data argument: the results of one batch read
    from_object_type,   \* the from_object_type argument
    to_object_type,     \* the to_object_type argument
    parsed_data         \* what the call returned

pavars == <<pa_pc, raw_data, from_object_type, to_object_type, parsed_data>>

\* ------------------------------------------------------------------------
\* Component.run (component.py): the order of the steps of a run
\* ------------------------------------------------------------------------

VARIABLES
    sync_pc,              \* "idle" | "configured" | "validated" | "state_read" | "fetching"
                          \* | "associating" | "closed" | "failed"
    configuration,        \* self._configuration: [enabled, associations, fetch_mode, archived]
    sync_state_file,      \* the persisted state file: handler name -> columns, last_run
    sync_state,           \* self.state
    sync_cache,           \* self._table_handler_cache: handler name ->
                          \*   [fieldnames: writer.fieldnames,
                          \*    rows: partition each written page came from,
                          \*    opened: how often a handler of that name was created]
    sync_todo,            \* enabled endpoints not yet processed
    sync_current,         \* the endpoint being processed, None between endpoints
    fetch_passes,         \* object kind -> the fetch_and_write_to_table calls of this run:
                          \*   [archived: the argument handed to the client method,
                          \*    api: "basic" | "search", partition: what is requested,
                          \*    pages: pages written so far, done: generator exhausted]
    associations_todo,    \* configured associations not yet processed
    sync_association,     \* the association being fetched, NoAssociation between them
    sync_error,           \* the exception that left run(), None if none
    clock,                \* the time, it advances with every run
    client_created,       \* _init_client has run in this run
    state_read,           \* get_state_file has run in this run
    sync_requests,        \* network requests issued in this run
    sync_written,         \* what this run wrote: tables, manifests, the state file
    state_writes,         \* write_state_file calls of this run
    committed_state_file, \* the state file as the last run without error left it
    sync_files,           \* the table files of this run: endpoint name ->
                          \*   [column_names: of the table definition,
                          \*    fieldnames: of the writer, rows: the rows written]
    association_requests  \* the batch reads of this run: [association, ids]

syncvars == <<sync_pc, configuration, sync_state_file, sync_state, sync_cache, sync_todo,
              sync_current, fetch_passes, associations_todo, sync_association, sync_error,
              clock, client_created, state_read, sync_requests, sync_written, state_writes,
              committed_state_file, sync_files, association_requests>>

\* ------------------------------------------------------------------------
\* HubspotClient._check_http_result (client.py): the last status check
\* ------------------------------------------------------------------------

VARIABLES
    ck_pc,           \* "idle" | "returned" | "raised"
    ck_caller,       \* "_check_http_result" (raw HTTP) | "_get_page_result" (SDK)
    ck_status_code,  \* the status_code argument
    ck_endpoint,     \* the endpoint argument
    ck_reason,       \* response.reason (exc.body) as it arrived
    ck_message       \* the parts of the message of the exception raised, in order

ckvars == <<ck_pc, ck_caller, ck_status_code, ck_endpoint, ck_reason, ck_message>>

\* ------------------------------------------------------------------------
\* HubspotClient.__init__ (client.py): one request under the retry settings
\* ------------------------------------------------------------------------

VARIABLES
    rt_pc,         \* "idle" | "requesting" | "returned" (a response reaches the client code)
                   \* | "exhausted" (the retries are used up)
    rt_transport,  \* "sdk" (client_v3) | "raw" (HttpClient.get_raw)
    rt_budget,     \* the retries the transport allows
    rt_requests,   \* requests sent for the call so far
    rt_status,     \* the status of the last response
    rt_retried     \* the statuses a retry has followed

rtvars == <<rt_pc, rt_transport, rt_budget, rt_requests, rt_status, rt_retried>>

\* ------------------------------------------------------------------------
\* Component.fetch_and_write_to_table (component.py): one item of a page
\* ------------------------------------------------------------------------

VARIABLES
    hs_pc,               \* "idle" | "written"
    hs_object_name,      \* the object_name argument
    fetch_property_history, \* additional_properties.fetch_property_history
    hs_item,             \* item.to_dict() as it arrived
    hs_row,              \* the row written to the table of the object
    property_history     \* the rows written to the property_history table

hsvars == <<hs_pc, hs_object_name, fetch_property_history, hs_item, hs_row,
            property_history>>

\* ------------------------------------------------------------------------
\* HubspotClient.get_contacts .. get_engagements_emails (client.py): the API
\* a fetch of a CRM object goes to
\* ------------------------------------------------------------------------

VARIABLES
    dp_pc,           \* "idle" | "requested"
    dp_object,       \* the CRM object whose getter is called
    dp_incremental,  \* the incremental argument
    dp_archived,     \* the archived argument
    dp_since_date,   \* the since_date argument
    dp_call          \* the SDK call the pagination makes: the API and its arguments

dpvars == <<dp_pc, dp_object, dp_incremental, dp_archived, dp_since_date, dp_call>>

\* ------------------------------------------------------------------------
\* Component.run, since_fetch_date, _parse_date (component.py): the fetch
\* window of consecutive runs
\* ------------------------------------------------------------------------

VARIABLES
    wn_pc,          \* "idle" | "started" (state read, last_run set) | "fetched"
    wn_now,         \* the time, in hours since the epoch
    wn_config,      \* fetch_settings of the run: fetch_mode, date_from
    wn_state_file,  \* the state file: the dict the last successful run wrote
    wn_state,       \* self.state of the run
    wn_runs,        \* the runs started so far
    wn_runs_log,    \* per run started: when it started and how it ended
    wn_fetches      \* per fetch: its run, since_date, the time of the request and
                    \* the state file as it was

wnvars == <<wn_pc, wn_now, wn_config, wn_state_file, wn_state, wn_runs, wn_runs_log,
            wn_fetches>>

\* what an action of one part leaves alone
paged_frame ==
    UNCHANGED <<v3vars, runvars, thvars, flvars, asvars, pavars, syncvars, ckvars, rtvars, hsvars, dpvars, wnvars>>
v3_frame ==
    UNCHANGED <<pgvars, runvars, thvars, flvars, asvars, pavars, syncvars, ckvars, rtvars, hsvars, dpvars, wnvars>>
run_frame ==
    UNCHANGED <<pgvars, v3vars, thvars, flvars, asvars, pavars, syncvars, ckvars, rtvars, hsvars, dpvars, wnvars>>
th_frame ==
    UNCHANGED <<pgvars, v3vars, runvars, flvars, asvars, pavars, syncvars, ckvars, rtvars, hsvars, dpvars, wnvars>>
fl_frame ==
    UNCHANGED <<pgvars, v3vars, runvars, thvars, asvars, pavars, syncvars, ckvars, rtvars, hsvars, dpvars, wnvars>>
as_frame ==
    UNCHANGED <<pgvars, v3vars, runvars, thvars, flvars, pavars, syncvars, ckvars, rtvars, hsvars, dpvars, wnvars>>
pa_frame ==
    UNCHANGED <<pgvars, v3vars, runvars, thvars, flvars, asvars, syncvars, ckvars, rtvars, hsvars, dpvars, wnvars>>
sync_frame ==
    UNCHANGED <<pgvars, v3vars, runvars, thvars, flvars, asvars, pavars, ckvars, rtvars, hsvars, dpvars, wnvars>>
ck_frame ==
    UNCHANGED <<pgvars, v3vars, runvars, thvars, flvars, asvars, pavars, syncvars, rtvars, hsvars, dpvars, wnvars>>
rt_frame ==
    UNCHANGED <<pgvars, v3vars, runvars, thvars, flvars, asvars, pavars, syncvars, ckvars, hsvars, dpvars, wnvars>>
hs_frame ==
    UNCHANGED <<pgvars, v3vars, runvars, thvars, flvars, asvars, pavars, syncvars, ckvars, rtvars, dpvars, wnvars>>
dp_frame ==
    UNCHANGED <<pgvars, v3vars, runvars, thvars, flvars, asvars, pavars, syncvars, ckvars, rtvars, hsvars, wnvars>>
wn_frame ==
    UNCHANGED <<pgvars, v3vars, runvars, thvars, flvars, asvars, pavars, syncvars, ckvars, rtvars, hsvars, dpvars>>

\* ------------------------------------------------------------------------
\* The remote API as seen through get_raw (environment)
\* ------------------------------------------------------------------------

Offsets == {"o1", "o2"}
ResultLists == {<<>>, <<"r1">>}
Statuses == {200, 401, 403, 404, 500}

\* The name of the has-more field in the bodies an endpoint returns:
\* contacts/v1/lists answers with "has-more", the other v1 endpoints with "hasMore".
ServerHasMoreField(endpoint) ==
    IF endpoint = ENDPOINTS_CONTACT_LISTS THEN "has-more" ELSE "hasMore"

\* A JSON body: each of the has-more field, the offset and the result array is
\* present or absent.
JsonBody(hmKey, hm, of, resKey, hasRs, rs) ==
    LET keys == (IF hm = "absent" THEN {} ELSE {hmKey})
                \cup (IF of = "absent" THEN {} ELSE {"offset"})
                \cup (IF hasRs THEN {resKey} ELSE {})
    IN [k \in keys |-> IF k = hmKey THEN (hm = "true")
                       ELSE IF k = "offset" THEN of
                       ELSE rs]

JsonBodies(endpoint, resKey) ==
    { JsonBody(ServerHasMoreField(endpoint), hm, of, resKey, hasRs, rs) :
        hm \in {"absent", "true", "false"},
        of \in {"absent"} \cup Offsets,
        hasRs \in BOOLEAN,
        rs \in ResultLists }

\* What one get_raw call can produce: a ConnectionError, an error status,
\* a success with a body that is not JSON, or a success with a JSON body.
RawResponses(endpoint, resKey) ==
    {[outcome |-> "ConnectionError", status_code |-> 0, is_json |-> FALSE, body |-> EmptyDict]}
    \cup {[outcome |-> "response", status_code |-> s, is_json |-> FALSE, body |-> EmptyDict] :
            s \in Statuses}
    \cup {[outcome |-> "response", status_code |-> 200, is_json |-> TRUE, body |-> b] :
            b \in JsonBodies(endpoint, resKey)}

\* ------------------------------------------------------------------------
\* HubspotClient._get_paged_result_pages (client.py 357-381)
\* ------------------------------------------------------------------------

\* variant: the offset is not sent
_paged_request_parameters_no_offset(params, off, lim) ==
    DictSet(params, "limit", lim)

\* variant: a fresh dict is sent instead of the caller's
_paged_request_parameters_fresh(params, off, lim) ==
    DictSet(DictSet(EmptyDict, "offset", off), "limit", lim)

\* parameters['offset'] = offset; parameters['limit'] = limit
_paged_request_parameters(params, off, lim) ==
    DictSet(DictSet(params, "offset", off), "limit", lim)

\* _raise_exception_from_status_code: the statuses that raise
_raises_for_status(status_code) == status_code >= 400 /\ status_code < 600

\* variant: continue whenever an offset came back
_paged_has_more_by_offset(body) ==
    "offset" \in DOMAIN body

\* req_response.get('hasMore') is truthy
_paged_has_more(body) ==
    "hasMore" \in DOMAIN body /\ body["hasMore"] = TRUE

\* variant: data = [req_response.get(res_obj_name)] when the field is missing
_paged_data_unguarded(body, resKey) ==
    IF resKey \in DOMAIN body THEN body[resKey] ELSE <<None>>

\* data = req_response[res_obj_name] if req_response.get(res_obj_name) else []
_paged_data(body, resKey) ==
    IF resKey \in DOMAIN body /\ body[resKey] # <<>> THEN body[resKey] ELSE <<>>

pg_raise(err) ==
    /\ pg_pc' = "raised"
    /\ pg_error' = err
    /\ UNCHANGED <<offset, has_more, pg_pages>>

\* the call itself: the generator object is created, its body has not run
_get_paged_result_pages(endpoint, params, resKey, off, lim) ==
    /\ pg_pc' = "running"
    /\ pg_endpoint' = endpoint
    /\ res_obj_name' = resKey
    /\ parameters' = params
    /\ pg_initial' = params
    /\ offset' = off
    /\ limit' = lim
    /\ has_more' = TRUE
    /\ pg_requests' = <<>>
    /\ pg_responses' = <<>>
    /\ pg_pages' = <<>>
    /\ pg_error' = None

\* one pass of the while loop: a request, its response, the page yielded
paged_iteration ==
    /\ pg_pc = "running"
    /\ has_more
    /\ Len(pg_requests) < MaxRequests
    /\ \E resp \in RawResponses(pg_endpoint, res_obj_name) :
        LET params == _paged_request_parameters(parameters, offset, limit)
            body == resp.body
        IN
        /\ parameters' = params
        /\ pg_requests' = Append(pg_requests, params)
        /\ pg_responses' = Append(pg_responses, resp)
        /\ IF resp.outcome = "ConnectionError"
             THEN pg_raise("HubspotClientException")
           ELSE IF _raises_for_status(resp.status_code)
             THEN pg_raise("HubspotClientException")
           ELSE IF ~resp.is_json
             THEN pg_raise("HubspotClientException")
           ELSE IF _paged_has_more(body) /\ "offset" \notin DOMAIN body
             THEN pg_raise("KeyError")
           ELSE
             /\ has_more' = _paged_has_more(body)
             /\ offset' = IF _paged_has_more(body) THEN body["offset"] ELSE offset
             /\ pg_pages' = Append(pg_pages, _paged_data(body, res_obj_name))
             /\ pg_pc' = IF _paged_has_more(body) THEN "running" ELSE "done"
             /\ pg_error' = None
    /\ UNCHANGED <<pg_endpoint, res_obj_name, limit, events_left, pg_initial>>
    /\ paged_frame

\* ------------------------------------------------------------------------
\* The callers of _get_paged_result_pages (client.py 271-296)
\* ------------------------------------------------------------------------

get_campaigns ==
    /\ pg_pc = "idle"
    /\ _get_paged_result_pages(ENDPOINT_CAMPAIGNS_BY_ID, EmptyDict, "campaigns", None, DEFAULT_V1_LIMIT)
    /\ events_left' = <<>>
    /\ paged_frame

get_contact_lists ==
    /\ pg_pc = "idle"
    /\ _get_paged_result_pages(ENDPOINTS_CONTACT_LISTS, EmptyDict, "lists", None, DEFAULT_V1_LIMIT)
    /\ events_left' = <<>>
    /\ paged_frame

\* updated_since is 0 in full fetch mode (falsy: no parameter is sent)
UpdatedSince == {0, 1700000000}

get_email_statistics ==
    /\ pg_pc = "idle"
    /\ \E updated_since \in UpdatedSince :
        _get_paged_result_pages(ENDPOINT_EMAIL_STATISTICS,
                                IF updated_since # 0 THEN [updated__gte |-> updated_since] ELSE EmptyDict,
                                "objects", None, DEFAULT_V1_LIMIT)
    /\ events_left' = <<>>
    /\ paged_frame

\* the configured email_event_types
EmailEventConfigs == {<<>>, <<"CLICK">>, <<"OPEN", "BOUNCE">>}

\* for event in email_events: the first event's pagination
get_email_events ==
    /\ pg_pc = "idle"
    /\ \E email_events \in EmailEventConfigs :
        LET evs == IF email_events = <<>> THEN EVENT_TYPES ELSE email_events
        IN /\ _get_paged_result_pages(ENDPOINT_EMAIL_EVENTS, [eventType |-> Head(evs)],
                                      "events", None, DEFAULT_V1_LIMIT)
           /\ events_left' = Tail(evs)
    /\ paged_frame

\* for event in email_events: the next event, once the previous pagination is exhausted
get_email_events_next ==
    /\ pg_pc = "done"
    /\ events_left # <<>>
    /\ _get_paged_result_pages(ENDPOINT_EMAIL_EVENTS, [eventType |-> Head(events_left)],
                               "events", None, DEFAULT_V1_LIMIT)
    /\ events_left' = Tail(events_left)
    /\ paged_frame

\* ------------------------------------------------------------------------
\* The remote v3 API (environment)
\* ------------------------------------------------------------------------

Afters == {"a1", "a2"}

\* The paging part of a response: missing altogether, present without next,
\* next without after, or the full path paging.next.after.
Pagings ==
    {EmptyDict}
    \cup {[paging |-> EmptyDict]}
    \cup {[paging |-> [next |-> EmptyDict]]}
    \cup {[paging |-> [next |-> [after |-> a]]] : a \in Afters}

\* a response body / SDK page: optional results, optional paging
V3Body(hasRs, rs, pg) ==
    [k \in (IF hasRs THEN {"results"} ELSE {}) \cup DOMAIN pg |->
        IF k = "results" THEN rs ELSE pg[k]]

V3Bodies == { V3Body(hasRs, rs, pg) : hasRs \in BOOLEAN, rs \in ResultLists, pg \in Pagings }

\* raw HTTP (forms): as RawResponses, with v3 bodies
V3RawResponses ==
    {[outcome |-> "ConnectionError", status_code |-> 0, is_json |-> FALSE, body |-> EmptyDict]}
    \cup {[outcome |-> "response", status_code |-> s, is_json |-> FALSE, body |-> EmptyDict] :
            s \in Statuses}
    \cup {[outcome |-> "response", status_code |-> 200, is_json |-> TRUE, body |-> b] :
            b \in V3Bodies}

\* statuses an SDK ApiException can carry (0: no HTTP response was received)
ApiExceptionStatuses == {0, 401, 403, 404, 500}

\* SDK call (get_page / do_search): a page object, or the kind's ApiException.
\* A page object always has a results attribute.
V3SdkResponses ==
    {[outcome |-> "ApiException", status_code |-> s, is_json |-> FALSE, body |-> EmptyDict] :
        s \in ApiExceptionStatuses}
    \cup {[outcome |-> "response", status_code |-> 200, is_json |-> TRUE, body |-> b] :
            b \in {x \in V3Bodies : "results" \in DOMAIN x}}

\* ------------------------------------------------------------------------
\* HubspotClient._get_paged_result_pages_v3 / _process_v3_response (client.py 423-452)
\* ------------------------------------------------------------------------

\* response.get('paging', {}).get('next', {}).get('after') is truthy
_process_v3_response_has_more(response) ==
    /\ "paging" \in DOMAIN response
    /\ "next" \in DOMAIN response["paging"]
    /\ "after" \in DOMAIN response["paging"]["next"]

\* parameters['after'] = response['paging']['next']['after'] when has_more
_process_v3_response_parameters(response, params) ==
    IF _process_v3_response_has_more(response)
        THEN DictSet(params, "after", response["paging"]["next"]["after"])
        ELSE params

v3_raise(err) ==
    /\ v3_pc' = "raised"
    /\ v3_error' = err
    /\ UNCHANGED v3_pages

v3_start(path, endpoint, params) ==
    /\ v3_pc = "idle"
    /\ v3_pc' = "running"
    /\ v3_path' = path
    /\ v3_endpoint' = endpoint
    /\ v3_parameters' = params
    /\ v3_requests' = <<>>
    /\ v3_responses' = <<>>
    /\ v3_pages' = <<>>
    /\ v3_error' = None
    /\ v3_frame

get_forms ==
    /\ v3_pc = "idle"
    /\ v3_start("raw", ENDPOINT_FORMS, EmptyDict)

\* one pass of the while loop of _get_paged_result_pages_v3
paged_v3_iteration ==
    /\ v3_pc = "running"
    /\ v3_path = "raw"
    /\ Len(v3_requests) < MaxRequests
    /\ \E resp \in V3RawResponses :
        LET params == DictSet(v3_parameters, "limit", PAGE_MAX_SIZE)
            body == resp.body
        IN
        /\ v3_requests' = Append(v3_requests, params)
        /\ v3_responses' = Append(v3_responses, resp)
        /\ IF resp.outcome = "ConnectionError"
             THEN v3_raise("ConnectionError") /\ v3_parameters' = params
           ELSE IF _raises_for_status(resp.status_code)
             THEN v3_raise("HubspotClientException") /\ v3_parameters' = params
           ELSE IF ~resp.is_json
             THEN v3_raise("JSONDecodeError") /\ v3_parameters' = params
           ELSE
             /\ v3_parameters' = _process_v3_response_parameters(body, params)
             /\ v3_pages' = Append(v3_pages, _paged_data(body, "results"))
             /\ v3_pc' = IF _process_v3_response_has_more(body) THEN "running" ELSE "done"
             /\ v3_error' = None
    /\ UNCHANGED <<v3_path, v3_endpoint>>
    /\ v3_frame

\* ------------------------------------------------------------------------
\* HubspotClient._paginate_v3_object / _paginate_v3_object_search (client.py 342-355, 454-466)
\* ------------------------------------------------------------------------

CrmEndpointNames == {"contact", "deal"}

\* get_owners: _paginate_v3_object(owners_api, "owner", ...), after = None
get_owners ==
    /\ v3_pc = "idle"
    /\ v3_start("object", "owner", [after |-> None])

\* _fetch_object_data: incremental goes to the search API (a search request with
\* limit = BATCH_LIMIT, after = 0), a full fetch to the basic API (after = None)
_fetch_object_data ==
    /\ v3_pc = "idle"
    /\ \E endpoint_name \in CrmEndpointNames, incremental \in BOOLEAN :
        IF incremental
            THEN v3_start("search", endpoint_name, [after |-> "0", limit |-> BATCH_LIMIT])
            ELSE v3_start("object", endpoint_name, [after |-> None])

\* what the SDK call is given: get_page(after=after, limit=PAGE_WITH_HISTORY_MAX_SIZE),
\* or do_search(public_object_search_request=search_request)
_sdk_request(path, params) ==
    IF path = "object" THEN DictSet(params, "limit", PAGE_WITH_HISTORY_MAX_SIZE) ELSE params

\* page.paging is None
_page_paging_is_none(page) == "paging" \notin DOMAIN page

\* one pass of the while loop of _paginate_v3_object / _paginate_v3_object_search:
\* the SDK call (_get_page_result / _get_search_result), yield page.results,
\* break if page.paging is None, else after = page.paging.next.after
sdk_v3_iteration ==
    /\ v3_pc = "running"
    /\ v3_path \in {"object", "search"}
    /\ Len(v3_requests) < MaxRequests
    /\ \E resp \in V3SdkResponses :
        LET page == resp.body IN
        /\ v3_requests' = Append(v3_requests, _sdk_request(v3_path, v3_parameters))
        /\ v3_responses' = Append(v3_responses, resp)
        /\ IF resp.outcome = "ApiException"
             THEN \* _raise_exception_from_status_code returns for a status outside
                  \* 400..599: the helper returns None and page.results fails
                  /\ v3_raise(IF _raises_for_status(resp.status_code)
                                THEN "HubspotClientException" ELSE "AttributeError")
                  /\ UNCHANGED v3_parameters
           ELSE IF _page_paging_is_none(page)
             THEN /\ v3_pages' = Append(v3_pages, page["results"])
                  /\ v3_pc' = "done"
                  /\ v3_error' = None
                  /\ UNCHANGED v3_parameters
           ELSE IF "next" \notin DOMAIN page["paging"]
             THEN \* page.paging.next is None: None has no attribute 'after'
                  /\ v3_pages' = Append(v3_pages, page["results"])
                  /\ v3_pc' = "raised"
                  /\ v3_error' = "AttributeError"
                  /\ UNCHANGED v3_parameters
           ELSE
             /\ v3_pages' = Append(v3_pages, page["results"])
             /\ v3_pc' = "running"
             /\ v3_error' = None
             /\ v3_parameters' =
                    DictSet(v3_parameters, "after",
                            IF "after" \in DOMAIN page["paging"]["next"]
                              THEN page["paging"]["next"]["after"] ELSE None)
    /\ UNCHANGED <<v3_path, v3_endpoint>>
    /\ v3_frame

V3Init ==
    /\ v3_pc = "idle"
    /\ v3_path = None
    /\ v3_endpoint = None
    /\ v3_parameters = EmptyDict
    /\ v3_requests = <<>>
    /\ v3_responses = <<>>
    /\ v3_pages = <<>>
    /\ v3_error = None

\* ------------------------------------------------------------------------
\* Component: table handlers, column state across runs (component.py 55-79, 322-356)
\* ------------------------------------------------------------------------

\* the column names that schemas, the state and the fetched records draw from
Columns == {"id", "name", "email"}

\* a property name of 64 characters, as a portal may define for a custom property
LongColumn == "hs_analytics_last_touch_converting_campaign_of_this_contact_here"

\* the keys a fetched record of a handler may carry: a CRM object carries any of
\* the columns above and the long property, an owner the fields of its schema
RowColumns(handler_name) ==
    IF handler_name = "contact" THEN Columns \cup {LongColumn} ELSE {"id", "email"}

\* the handlers (object kinds) of the model
HandlerNames == {"contact", "owner"}

\* the configured lists of enabled endpoints
EnabledConfigs == {<<"contact">>, <<"owner">>, <<"contact", "owner">>}

\* the field names a handler's table schema may declare: for a CRM object they
\* follow the configured properties and the API's property list, whose order
\* the component does not control; the owner schema is a fixed file
SchemaFieldNames(handler_name) ==
    IF handler_name = "contact"
        THEN {<<"id">>, <<"id", "name">>, <<"name", "email", "id">>, <<"email", "id">>}
        ELSE {<<"id", "email">>}

Range(seq) == {seq[i] : i \in 1..Len(seq)}

\* [x for x in seq if x not in other]
NotIn(seq, other) == SelectSeq(seq, LAMBDA x : x \notin Range(other))

\* the orders in which a set of new keys can be appended to a list
Orderings(S) ==
    {q \in [1..Cardinality(S) -> S] : \A i, j \in 1..Cardinality(S) : (q[i] = q[j]) => (i = j)}

\* self.state.get(object_name, [])
StateGet(st, name) == IF name \in DOMAIN st THEN st[name] ELSE <<>>

\* variant: the columns of the state are not added
_add_columns_from_state_to_column_list_skipped(columns_in_state, column_names) ==
    column_names

\* _add_columns_from_state_to_column_list: table_definition.add_column for every
\* column of the state that is not among the definition's column names
_add_columns_from_state_to_column_list(columns_in_state, column_names) ==
    column_names \o NotIn(columns_in_state, column_names)

\* run(): self.state = self.get_state_file(), then the loop over the enabled endpoints
run ==
    /\ run_pc \in {"idle", "failed"}
    /\ run_pc' = "fetching"
    /\ state' = state_file
    /\ _table_handler_cache' = EmptyDict
    /\ \E enabled \in EnabledConfigs : endpoints_todo' = enabled
    /\ current_endpoint' = None
    /\ candidate' = EmptyDict
    /\ opened_with' = EmptyDict
    /\ row_columns' = EmptyDict
    /\ first_observed' = EmptyDict
    /\ UNCHANGED <<state_file, manifests, manifest_column_metadata>>
    /\ run_frame

\* create_out_table_definition_from_schema(table_schema): the column metadata of
\* the new definition describes every field of the schema; a dict in insertion
\* order, each entry <<column name, what describes it>> (the description and data
\* type of a field are identified by the field's name)
SchemaColumnMetadata(field_names) ==
    [i \in 1..Len(field_names) |-> <<field_names[i], field_names[i]>>]

\* _init_table_handler(handler_name, table_schema) for a handler not yet in the cache:
\* the table definition is created from the schema, the state's columns are
\* added, and the writer is opened with the definition's column names
_init_table_handler(handler_name, field_names) ==
    LET column_names ==
            _add_columns_from_state_to_column_list(StateGet(state, handler_name), field_names)
    IN /\ handler_name \notin DOMAIN _table_handler_cache
       /\ _table_handler_cache' =
              DictSet(_table_handler_cache, handler_name,
                      [column_names |-> column_names, fieldnames |-> column_names,
                       column_metadata |-> SchemaColumnMetadata(field_names)])
       /\ candidate' = DictSet(candidate, handler_name, field_names)
       /\ opened_with' = DictSet(opened_with, handler_name, column_names)
       /\ row_columns' = DictSet(row_columns, handler_name, {})
       /\ first_observed' = DictSet(first_observed, handler_name, <<>>)

\* process_endpoint(endpoint_name), up to the first page: the handler is opened
process_endpoint ==
    /\ run_pc = "fetching"
    /\ current_endpoint = None
    /\ endpoints_todo # <<>>
    /\ current_endpoint' = Head(endpoints_todo)
    /\ endpoints_todo' = Tail(endpoints_todo)
    /\ \E field_names \in SchemaFieldNames(Head(endpoints_todo)) :
          _init_table_handler(Head(endpoints_todo), field_names)
    /\ UNCHANGED <<run_pc, state_file, state, manifests, manifest_column_metadata>>
    /\ run_frame

\* TableHandler.writerow(row): the writer appends the row's keys it does not know
\* yet to its fieldnames
writerow ==
    /\ run_pc = "fetching"
    /\ current_endpoint # None
    /\ \E keys \in (SUBSET RowColumns(current_endpoint)) \ {{}} :
        LET h == _table_handler_cache[current_endpoint]
            new == keys \ Range(h.fieldnames)
            unseen == keys \ row_columns[current_endpoint]
        IN \E order \in Orderings(new) :
            /\ _table_handler_cache' =
                  DictSet(_table_handler_cache, current_endpoint,
                          [h EXCEPT !.fieldnames = h.fieldnames \o order])
            /\ row_columns' = DictSet(row_columns, current_endpoint,
                                      row_columns[current_endpoint] \cup keys)
            /\ first_observed' =
                  IF unseen = {} THEN first_observed
                  ELSE DictSet(first_observed, current_endpoint,
                               Append(first_observed[current_endpoint], unseen))
    /\ UNCHANGED <<run_pc, state_file, state, manifests, endpoints_todo, current_endpoint,
                   candidate, opened_with, manifest_column_metadata>>
    /\ run_frame

\* the endpoint's generator is exhausted: process_endpoint returns
process_endpoint_done ==
    /\ run_pc = "fetching"
    /\ current_endpoint # None
    /\ current_endpoint' = None
    /\ UNCHANGED <<run_pc, state_file, state, _table_handler_cache, manifests, endpoints_todo,
                   candidate, opened_with, row_columns, first_observed,
                   manifest_column_metadata>>
    /\ run_frame

\* a HubspotClientException during the fetch: process_endpoint raises UserException
\* and the run ends before any handler is closed or the state file is written
process_endpoint_raises ==
    /\ run_pc = "fetching"
    /\ current_endpoint # None
    /\ run_pc' = "failed"
    /\ UNCHANGED <<state_file, state, _table_handler_cache, manifests, endpoints_todo,
                   current_endpoint, candidate, opened_with, row_columns, first_observed,
                   manifest_column_metadata>>
    /\ run_frame

\* variant: the missing columns are not added to the table definition
_closed_column_names_as_opened(handler) == handler.column_names

\* _close_table_handler: the definition's columns after add_columns(missing_columns)
_closed_column_names(handler) ==
    handler.column_names \o NotIn(handler.fieldnames, handler.column_names)

\* variant: the column names the table definition was opened with
writer_fields_of_definition(handler) == handler.column_names

\* TableHandler.writer_fields: a copy of the writer's fieldnames
writer_fields(handler) == handler.fieldnames

\* TableHandler.redefine_table_column_metadata(state_columns): only the metadata
\* of columns that are not in state_columns is kept
redefine_table_column_metadata(column_metadata, state_columns) ==
    SelectSeq(column_metadata, LAMBDA entry : entry[1] \notin Range(state_columns))

\* _close_table_handlers: for every handler of the cache the writer is closed,
\* state[name] = writer fieldnames, then prev_run_cols = state.get(name, []) is
\* read (from the entry just assigned), the column metadata is redefined with it
\* and the manifest is written; the cache is emptied
_close_table_handlers ==
    /\ run_pc = "fetching"
    /\ current_endpoint = None
    /\ endpoints_todo = <<>>
    /\ run_pc' = "closed"
    /\ state' = [n \in (DOMAIN state) \cup (DOMAIN _table_handler_cache) |->
                    IF n \in DOMAIN _table_handler_cache
                        THEN writer_fields(_table_handler_cache[n])
                        ELSE state[n]]
    /\ manifests' = [n \in (DOMAIN manifests) \cup (DOMAIN _table_handler_cache) |->
                        IF n \in DOMAIN _table_handler_cache
                            THEN _closed_column_names(_table_handler_cache[n])
                            ELSE manifests[n]]
    /\ manifest_column_metadata' =
            [n \in (DOMAIN manifest_column_metadata) \cup (DOMAIN _table_handler_cache) |->
                IF n \in DOMAIN _table_handler_cache
                    THEN LET prev_run_cols == StateGet(state', n)
                         IN redefine_table_column_metadata(
                                _table_handler_cache[n].column_metadata, prev_run_cols)
                    ELSE manifest_column_metadata[n]]
    /\ _table_handler_cache' = EmptyDict
    /\ UNCHANGED <<state_file, endpoints_todo, current_endpoint, candidate, opened_with,
                   row_columns, first_observed>>
    /\ run_frame

\* self.write_state_file(self.state), the last statement of run()
write_state_file ==
    /\ run_pc = "closed"
    /\ run_pc' = "idle"
    /\ state_file' = state
    /\ UNCHANGED <<state, _table_handler_cache, manifests, endpoints_todo, current_endpoint,
                   candidate, opened_with, row_columns, first_observed,
                   manifest_column_metadata>>
    /\ run_frame

\* before the first run: no state file, nothing in memory
RunInit ==
    /\ run_pc = "idle"
    /\ state_file = EmptyDict
    /\ state = EmptyDict
    /\ _table_handler_cache = EmptyDict
    /\ manifests = EmptyDict
    /\ endpoints_todo = <<>>
    /\ current_endpoint = None
    /\ candidate = EmptyDict
    /\ opened_with = EmptyDict
    /\ row_columns = EmptyDict
    /\ first_observed = EmptyDict
    /\ manifest_column_metadata = EmptyDict

RunNext ==
    \/ run
    \/ process_endpoint
    \/ writerow
    \/ process_endpoint_done
    \/ process_endpoint_raises
    \/ _close_table_handlers
    \/ write_state_file

\* ------------------------------------------------------------------------
\* TableHandler: length normalization and name aliasing (table_handler.py 13-33, 63-93)
\* ------------------------------------------------------------------------

\* columns a table definition may hold
MaxColumns == 2

\* a second long property name with the same first 30 characters as LongColumn
LongColumnB == "hs_analytics_last_touch_conver_campaign_of_the_first_conversion_of_this_contact"

\* hashlib.md5(columns_name.encode('utf-8')).hexdigest() of the long names
_hash_column(columns_name) ==
    CASE columns_name = LongColumn -> "2ac94630b83253ec313b6f3f601eae94"
      [] columns_name = LongColumnB -> "162162b4f8fef76eaf3684544fd545a9"

\* a name of 63 characters that is a column in its own right: the first 30
\* characters of LongColumn, '_' and 32 hexadecimal digits
HashLikeColumn == SubSeq(LongColumn, 1, 30) \o "_" \o "2ac94630b83253ec313b6f3f601eae94"

\* the column names of the handlers of this part
TableColumns == {"id", "hs_object_id", "name", LongColumn, LongColumnB, HashLikeColumn}

\* duplicate-free lists of at most n names of S
RECURSIVE ColumnLists(_, _)
ColumnLists(S, n) ==
    IF n = 0 THEN {<<>>}
    ELSE LET shorter == ColumnLists(S, n - 1)
         IN shorter \cup UNION {{Append(l, c) : c \in S \ Range(l)} : l \in shorter}

\* the column_swaps arguments: the alias of an id-like field, a rename of two
\* columns, a rename onto another column's old name, and no alias at all
ColumnSwaps ==
    { [k \in {"hs_object_id"} |-> "id"],
      [k \in {"name", "id"} |-> IF k = "name" THEN "full_name" ELSE "hs_object_id"],
      [k \in {LongColumn} |-> "campaign"],
      EmptyDict }

\* key_map.get(k, k)
KeyMapGet(key_map, k) == IF k \in DOMAIN key_map THEN key_map[k] ELSE k

\* a dict built from items in order: a key that comes again keeps its place and
\* takes the later value
RECURSIVE DictOfItems(_)
DictOfItems(items) ==
    IF items = <<>> THEN <<>>
    ELSE LET d == DictOfItems(SubSeq(items, 1, Len(items) - 1))
             last == items[Len(items)]
         IN IF \E i \in 1..Len(d) : d[i][1] = last[1]
              THEN [i \in 1..Len(d) |-> IF d[i][1] = last[1] THEN last ELSE d[i]]
              ELSE Append(d, last)

\* {key_map.get(k, k): v for (k, v) in column_metadata.items()}
RemapMetadataKeys(column_metadata, key_map) ==
    DictOfItems([i \in 1..Len(column_metadata) |->
                    <<KeyMapGet(key_map, column_metadata[i][1]), column_metadata[i][2]>>])

\* the four fields of the handler
TableHandlerFields ==
    [fieldnames |-> th_fieldnames, columns |-> th_columns,
     column_metadata |-> th_column_metadata, primary_key |-> th_primary_key]

\* TableHandler(table_definition, writer) as _init_table_handler builds it: the
\* definition's columns are duplicate-free, its metadata describes the schema's
\* fields (the first columns), its primary keys are columns, and the writer was
\* opened with the columns and may have met one more key in the rows
TableHandler_init ==
    /\ th_op = "none"
    /\ \E columns \in ColumnLists(TableColumns, MaxColumns) \ {<<>>} :
       \E described \in 0..Len(columns) :
       \E extra \in {<<>>} \cup {<<c>> : c \in TableColumns \ Range(columns)} :
       \E primary_key \in {<<>>, <<columns[1]>>} :
          /\ th_columns' = columns
          /\ th_fieldnames' = columns \o extra
          /\ th_column_metadata' = SchemaColumnMetadata(SubSeq(columns, 1, described))
          /\ th_primary_key' = primary_key
    /\ th_op' = "__init__"
    /\ th_column_swaps' = EmptyDict
    /\ th_before' = TableHandlerFields'
    /\ th_frame

\* shorten_column_names_in_table_definition, the loop: key_map
shorten_key_map(columns) ==
    [c \in {x \in Range(columns) : Len(x) >= 64} |->
        SubSeq(c, 1, 30) \o "_" \o _hash_column(c)]

\* shorten_column_names_in_table_definition, the loop: columns afterwards
shortened_columns(columns) ==
    [i \in 1..Len(columns) |->
        IF Len(columns[i]) >= 64
            THEN SubSeq(columns[i], 1, 30) \o "_" \o _hash_column(columns[i])
            ELSE columns[i]]

\* shorten_column_names_in_table_definition(): the writer's fieldnames are
\* shortened in place and become the definition's columns, the metadata keys
\* are remapped; the primary keys are not touched
shorten_column_names_in_table_definition ==
    /\ th_op # "none"
    /\ th_fieldnames' = shortened_columns(th_fieldnames)
    /\ th_columns' = shortened_columns(th_fieldnames)
    /\ th_column_metadata' =
            RemapMetadataKeys(th_column_metadata, shorten_key_map(th_fieldnames))
    /\ UNCHANGED th_primary_key
    /\ th_op' = "shorten"
    /\ th_column_swaps' = EmptyDict
    /\ th_before' = TableHandlerFields
    /\ th_frame

\* swap_column_names_in_table_definition, first loop: key_map
swap_key_map(columns, column_swaps) ==
    [c \in Range(columns) \cap DOMAIN column_swaps |-> column_swaps[c]]

\* swap_column_names_in_table_definition, first loop: writer.fieldnames afterwards
swapped_fieldnames(columns, column_swaps) ==
    [i \in 1..Len(columns) |-> KeyMapGet(column_swaps, columns[i])]

\* variant: the primary keys are left as they are
new_primary_keys_untouched(primary_keys, column_swaps) == primary_keys

\* swap_column_names_in_table_definition, second loop: new_primary_keys
new_primary_keys(primary_keys, column_swaps) ==
    [i \in 1..Len(primary_keys) |-> KeyMapGet(column_swaps, primary_keys[i])]

\* swap_column_names_in_table_definition, third loop: new_columns
new_columns(columns, column_swaps) ==
    [i \in 1..Len(columns) |-> KeyMapGet(column_swaps, columns[i])]

\* swap_column_names_in_table_definition(column_swaps)
swap_column_names_in_table_definition ==
    /\ th_op # "none"
    /\ \E column_swaps \in ColumnSwaps :
          /\ th_fieldnames' = swapped_fieldnames(th_fieldnames, column_swaps)
          /\ th_column_metadata' =
                RemapMetadataKeys(th_column_metadata,
                                  swap_key_map(th_fieldnames, column_swaps))
          /\ th_primary_key' = new_primary_keys(th_primary_key, column_swaps)
          /\ th_columns' = new_columns(th_columns, column_swaps)
          /\ th_column_swaps' = column_swaps
    /\ th_op' = "swap"
    /\ th_before' = TableHandlerFields
    /\ th_frame

\* no handler yet
TableInit ==
    /\ th_fieldnames = <<>>
    /\ th_columns = <<>>
    /\ th_column_metadata = <<>>
    /\ th_primary_key = <<>>
    /\ th_op = "none"
    /\ th_column_swaps = EmptyDict
    /\ th_before = [fieldnames |-> <<>>, columns |-> <<>>,
                    column_metadata |-> <<>>, primary_key |-> <<>>]

TableNext ==
    \/ TableHandler_init
    \/ shorten_column_names_in_table_definition
    \/ swap_column_names_in_table_definition

\* ------------------------------------------------------------------------
\* FlattenJsonParser (json_parser.py 36-67)
\* ------------------------------------------------------------------------

\* the largest max_parsing_depth a parser of the model is built with
MaxParsingDepth == 2

\* FlattenJsonParser.__init__: child_separator = '_'
child_separator == "_"

\* JSON values.  A string is [str |-> s], a list [list |-> <<values>>], a dict
\* [dict |-> d] with d a function from its keys to values.
IsDict(value) == "dict" \in DOMAIN value
IsList(value) == "list" \in DOMAIN value

\* the keys of the records handed to the parser
FlattenKeys == {"a", "b"}

\* the values that are no dicts: a string and a list of one nested mapping
LeafValues ==
    { [str |-> "1"],
      [list |-> << [dict |-> [k \in {"a"} |-> [str |-> "1"]]] >>] }

\* the dicts whose values are in V, the empty dict included
DictsOver(V) == {[dict |-> d] : d \in UNION {[K -> V] : K \in SUBSET FlattenKeys}}

\* the records handed to parse_row: up to three levels of keys
FlattenRows == DictsOver(LeafValues \cup DictsOver(LeafValues \cup DictsOver(LeafValues)))

\* variant: the separator is put in front of a top-level key too
_construct_key_always_joined(parent_key, separator, child_key) ==
    parent_key \o separator \o child_key

\* _construct_key(parent_key, separator, child_key)
_construct_key(parent_key, separator, child_key) ==
    IF parent_key # "" THEN parent_key \o separator \o child_key ELSE child_key

\* variant: the depth budget ends one level earlier
_flatten_descends_below(dict_object, current_depth, max_depth) ==
    IsDict(dict_object) /\ current_depth < max_depth

\* _flatten: isinstance(dict_object, dict) and current_depth <= self.max_parsing_depth
_flatten_descends(dict_object, current_depth, max_depth) ==
    IsDict(dict_object) /\ current_depth <= max_depth

\* variant: a list is stored without its items
_flatten_stored_emptied(dict_object) ==
    IF IsList(dict_object) THEN [list |-> <<>>] ELSE dict_object

\* _flatten, else branch: the value stored under name_with_parent
_flatten_stored(dict_object) == dict_object

\* _flatten(dict_object, name_with_parent, current_depth): the assignments
\* flattened_dict[name] = value it performs, as a set of <<name, value>>
RECURSIVE _flatten(_, _, _, _)
_flatten(dict_object, name_with_parent, current_depth, max_depth) ==
    IF _flatten_descends(dict_object, current_depth, max_depth)
        THEN UNION { _flatten(dict_object.dict[key],
                              _construct_key(name_with_parent, child_separator, key),
                              current_depth + 1, max_depth)
                     : key \in DOMAIN dict_object.dict }
        ELSE { <<name_with_parent, _flatten_stored(dict_object)>> }

\* _flatten_row(nested_dict): the dicts the assignments can leave behind.  The
\* keys of a record are not ordered in the model, so when two assignments go
\* to one name either may be the later one.
_flatten_row(nested_dict, max_depth) ==
    IF DOMAIN nested_dict.dict = {} THEN {EmptyDict}
    ELSE LET assignments == _flatten(nested_dict, "", 0, max_depth)
             names == {a[1] : a \in assignments}
         IN {d \in [names -> {a[2] : a \in assignments}] :
                \A name \in names : <<name, d[name]>> \in assignments}

\* parser = FlattenJsonParser(max_parsing_depth=...); parser.parse_row(row)
parse_row ==
    /\ fl_pc = "idle"
    /\ \E depth \in 0..MaxParsingDepth, row \in FlattenRows :
          /\ max_parsing_depth' = depth
          /\ fl_row' = row
          /\ fl_parsed' \in _flatten_row(row, depth)
    /\ fl_pc' = "parsed"
    /\ fl_frame

\* parser.parse_row(parsed): the result of the last call is parsed again
parse_row_again ==
    /\ fl_pc = "parsed"
    /\ fl_row' = [dict |-> fl_parsed]
    /\ fl_parsed' \in _flatten_row([dict |-> fl_parsed], max_parsing_depth)
    /\ fl_pc' = "reparsed"
    /\ UNCHANGED max_parsing_depth
    /\ fl_frame

\* records whose keys contain the separator: "a_b" next to "a" holding a "b"
SeparatorKeys == {"a", "a_b"}

DictsOverKeys(Keys, V) == {[dict |-> d] : d \in UNION {[K -> V] : K \in SUBSET Keys}}

SeparatorRows ==
    {[dict |-> d] :
        d \in UNION {[K -> LeafValues \cup DictsOverKeys({"b"}, LeafValues)] :
                        K \in SUBSET SeparatorKeys}}

\* parser.parse_row(row) for a record with a key that contains the separator
parse_row_separator_keys ==
    /\ fl_pc = "idle"
    /\ \E depth \in 0..MaxParsingDepth, row \in SeparatorRows :
          /\ max_parsing_depth' = depth
          /\ fl_row' = row
          /\ fl_parsed' \in _flatten_row(row, depth)
    /\ fl_pc' = "parsed_separator"
    /\ fl_frame

\* no parse_row call yet
FlattenInit ==
    /\ fl_pc = "idle"
    /\ max_parsing_depth = 0
    /\ fl_row = [dict |-> EmptyDict]
    /\ fl_parsed = EmptyDict

FlattenNext ==
    \/ parse_row
    \/ parse_row_again
    \/ parse_row_separator_keys

\* ------------------------------------------------------------------------
\* HubspotClient.get_associations: batches of object ids (client.py 301-317)
\* ------------------------------------------------------------------------

\* the most object ids one call is given
MaxObjectIds == 250

\* the longest list divide_chunks is called with on its own
MaxListLength == 20

\* the list_len arguments divide_chunks is called with on its own
ChunkLengths == {1, 2, 3, 7}

\* the ids of n objects
ObjectIds(n) == [i \in 1..n |-> i]

\* _format_batch_inputs(object_ids)
_format_batch_inputs(object_ids) ==
    [i \in 1..Len(object_ids) |-> [id |-> object_ids[i]]]

\* list_to_divide[lo:hi]
Slice(list_to_divide, lo, hi) ==
    SubSeq(list_to_divide, lo + 1,
           IF hi < Len(list_to_divide) THEN hi ELSE Len(list_to_divide))

\* variant: a last chunk shorter than list_len is left out
RECURSIVE divide_chunks_full_only(_, _, _)
divide_chunks_full_only(list_to_divide, list_len, i) ==
    IF i + list_len > Len(list_to_divide) THEN <<>>
    ELSE <<Slice(list_to_divide, i, i + list_len)>>
            \o divide_chunks_full_only(list_to_divide, list_len, i + list_len)

\* divide_chunks(list_to_divide, list_len): what the loop yields from index i on,
\* for i in range(0, len(list_to_divide), list_len)
RECURSIVE divide_chunks(_, _, _)
divide_chunks(list_to_divide, list_len, i) ==
    IF i >= Len(list_to_divide) THEN <<>>
    ELSE <<Slice(list_to_divide, i, i + list_len)>>
            \o divide_chunks(list_to_divide, list_len, i + list_len)

\* get_associations(object_id_generator, from_object_type, to_object_type), up
\* to the first batch read
get_associations ==
    /\ as_pc = "idle"
    /\ \E n \in 0..MaxObjectIds :
          /\ as_object_ids' = ObjectIds(n)
          /\ as_chunks' = divide_chunks(_format_batch_inputs(ObjectIds(n)), BATCH_LIMIT, 0)
          /\ as_pc' = IF as_chunks' = <<>> THEN "done" ELSE "running"
    /\ as_list_len' = BATCH_LIMIT
    /\ as_requests' = <<>>
    /\ as_error' = None
    /\ as_frame

\* one turn of the loop: batch_api.read for the next chunk; its results are
\* yielded, or the ApiException it raises ends the call
batch_api_read ==
    /\ as_pc = "running"
    /\ LET input_chuck == as_chunks[Len(as_requests) + 1]
       IN /\ as_requests' = Append(as_requests, input_chuck)
          /\ \E ok \in BOOLEAN :
                IF ok
                  THEN /\ as_pc' = IF Len(as_requests) + 1 = Len(as_chunks)
                                     THEN "done" ELSE "running"
                       /\ as_error' = None
                  ELSE /\ as_pc' = "raised"
                       /\ as_error' = "ApiException"
    /\ UNCHANGED <<as_object_ids, as_list_len, as_chunks>>
    /\ as_frame

\* list(HubspotClient.divide_chunks(list_to_divide, list_len))
divide_chunks_call ==
    /\ as_pc = "idle"
    /\ \E n \in 0..MaxListLength, list_len \in ChunkLengths :
          /\ as_object_ids' = ObjectIds(n)
          /\ as_list_len' = list_len
          /\ as_chunks' = divide_chunks(ObjectIds(n), list_len, 0)
    /\ as_pc' = "divided"
    /\ as_requests' = <<>>
    /\ as_error' = None
    /\ as_frame

\* no call yet
AssociationsInit ==
    /\ as_pc = "idle"
    /\ as_object_ids = <<>>
    /\ as_list_len = BATCH_LIMIT
    /\ as_chunks = <<>>
    /\ as_requests = <<>>
    /\ as_error = None

AssociationsNext ==
    \/ get_associations
    \/ batch_api_read
    \/ divide_chunks_call

\* ------------------------------------------------------------------------
\* Component._parse_association_v4 (component.py)
\* ------------------------------------------------------------------------

MaxSources == 2

\* the association types the batch read reports for one target
AssociationTypes ==
    { [category |-> "HUBSPOT_DEFINED", label |-> None, type_id |-> 1],
      [category |-> "USER_DEFINED", label |-> "partner", type_id |-> 9] }

AssociationTypeLists ==
    { <<>>,
      <<[category |-> "HUBSPOT_DEFINED", label |-> None, type_id |-> 1]>>,
      <<[category |-> "USER_DEFINED", label |-> "partner", type_id |-> 9],
        [category |-> "HUBSPOT_DEFINED", label |-> None, type_id |-> 1]>> }

ToObjectIds == {"10", "20"}

\* one entry of associations.to
AssociationTargets ==
    [to_object_id : ToObjectIds, association_types : AssociationTypeLists]

\* associations.to: every target of one source record, each target once
AssociationTargetLists ==
    {<<>>} \cup {<<t>> : t \in AssociationTargets}
           \cup { l \in { <<t, u>> : t \in AssociationTargets, u \in AssociationTargets } :
                      l[1].to_object_id # l[2].to_object_id }

FromIds == {"1", "2"}

\* one result of the batch read: associations._from.id and associations.to
AssociationResults == [_from_id : FromIds, to : AssociationTargetLists]

RECURSIVE SeqsUpTo(_, _)
SeqsUpTo(S, n) ==
    IF n = 0 THEN {<<>>}
    ELSE LET shorter == SeqsUpTo(S, n - 1)
         IN  shorter \cup {Append(l, x) : l \in {m \in shorter : Len(m) = n - 1}, x \in S}

RawData == SeqsUpTo(AssociationResults, MaxSources)

AssociationKinds == { <<"contact", "company">>, <<"deal", "contact">> }

\* the rows appended for the first association type only
_parse_association_types_first_only(from_id, association_to, from_kind, to_kind) ==
    IF association_to.association_types = <<>> THEN <<>>
    ELSE << [from_id |-> from_id,
             to_id |-> association_to.to_object_id,
             from_object_type |-> from_kind,
             to_object_type |-> to_kind,
             category |-> association_to.association_types[1].category,
             label |-> association_to.association_types[1].label,
             type_id |-> association_to.association_types[1].type_id] >>

\* the innermost loop: one row per association type of one target
_parse_association_types(from_id, association_to, from_kind, to_kind) ==
    [ k \in 1..Len(association_to.association_types) |->
        [from_id |-> from_id,
         to_id |-> association_to.to_object_id,
         from_object_type |-> from_kind,
         to_object_type |-> to_kind,
         category |-> association_to.association_types[k].category,
         label |-> association_to.association_types[k].label,
         type_id |-> association_to.association_types[k].type_id] ]

\* the middle loop: the targets of one source record, in order
RECURSIVE _parse_association_targets(_, _, _, _)
_parse_association_targets(from_id, to, from_kind, to_kind) ==
    IF to = <<>> THEN <<>>
    ELSE _parse_association_types(from_id, Head(to), from_kind, to_kind)
         \o _parse_association_targets(from_id, Tail(to), from_kind, to_kind)

\* the outer loop: the source records, in order
RECURSIVE _parse_association_v4_rows(_, _, _)
_parse_association_v4_rows(raw, from_kind, to_kind) ==
    IF raw = <<>> THEN <<>>
    ELSE _parse_association_targets(Head(raw)._from_id, Head(raw).to, from_kind, to_kind)
         \o _parse_association_v4_rows(Tail(raw), from_kind, to_kind)

_parse_association_v4 ==
    /\ pa_pc = "idle"
    /\ \E raw \in RawData, kinds \in AssociationKinds :
         /\ raw_data' = raw
         /\ from_object_type' = kinds[1]
         /\ to_object_type' = kinds[2]
         /\ parsed_data' = _parse_association_v4_rows(raw, kinds[1], kinds[2])
    /\ pa_pc' = "parsed"
    /\ pa_frame

ParseAssociationInit ==
    /\ pa_pc = "idle"
    /\ raw_data = <<>>
    /\ from_object_type = None
    /\ to_object_type = None
    /\ parsed_data = <<>>

ParseAssociationNext == _parse_association_v4

\* ------------------------------------------------------------------------
\* Component.run (component.py): validation, fetch passes, closing, state
\* ------------------------------------------------------------------------

MaxRuns == 2
MaxPages == 1

\* the fields of Endpoints the model follows, in the order of the dataclass
EndpointOrder == <<"contact", "quote">>

\* kinds fetched by _process_basic_crm_object
CrmObjects == {"contact", "quote"}

\* client methods that reset archived to False before _fetch_object_data
ArchivedNotSupported == {"quote"}

\* Endpoints.enabled: the names of the fields that are set, in field order
Enabled(S) == SelectSeq(EndpointOrder, LAMBDA name : name \in S)

AssociationLists ==
    { <<>>,
      <<[from_object |-> "contact", to_object |-> "company"]>>,
      <<[from_object |-> "contact", to_object |-> "company"],
        [from_object |-> "deal", to_object |-> "contact"]>> }

\* sync_association between two associations
NoAssociation == [from_object |-> None, to_object |-> None]

FULL_FETCH == "full_fetch"
INCREMENTAL_FETCH == "incremental_fetch"

Configurations ==
    [enabled : {Enabled(S) : S \in SUBSET Range(EndpointOrder)},
     associations : AssociationLists,
     fetch_mode : {FULL_FETCH, INCREMENTAL_FETCH},
     archived : BOOLEAN]

\* exceptions a client generator can end with
ClientErrors == {"HubspotClientException", "ApiException"}

\* columns a page can carry that no schema names
NewColumns == {"x"}

\* variant: the exception is swallowed where it occurs
escalate_nowhere(pc) == pc

\* an exception nothing in run() catches ends the run
escalate(pc) == "failed"

\* except HubspotClientException as e: raise UserException(e) from e
as_user_exception(exception) ==
    IF exception = "HubspotClientException" THEN "UserException" ELSE exception

\* _init_configuration, in a new process: nothing of the previous run is in memory
_init_configuration ==
    /\ sync_pc \in {"idle", "failed"}
    /\ clock < MaxRuns
    /\ clock' = clock + 1
    /\ \E c \in Configurations : configuration' = c
    /\ sync_pc' = "configured"
    /\ sync_state' = EmptyDict
    /\ sync_cache' = EmptyDict
    /\ sync_todo' = <<>>
    /\ sync_current' = None
    /\ fetch_passes' = EmptyDict
    /\ associations_todo' = <<>>
    /\ sync_association' = NoAssociation
    /\ sync_error' = None
    /\ client_created' = FALSE
    /\ state_read' = FALSE
    /\ sync_requests' = 0
    /\ sync_written' = {}
    /\ state_writes' = 0
    /\ sync_files' = EmptyDict
    /\ association_requests' = <<>>
    /\ UNCHANGED <<sync_state_file, committed_state_file>>
    /\ sync_frame

\* variant: no association is checked
_validate_associations_raises_never(c) == FALSE

\* _validate_associations raises: the from-object of some association is not
\* among the enabled endpoints
_validate_associations_raises(c) ==
    \E i \in 1..Len(c.associations) : c.associations[i].from_object \notin Range(c.enabled)

_validate_associations ==
    /\ sync_pc = "configured"
    /\ IF _validate_associations_raises(configuration)
           THEN /\ sync_pc' = escalate(sync_pc)
                /\ sync_error' = "UserException"
           ELSE /\ sync_pc' = "validated"
                /\ UNCHANGED sync_error
    /\ UNCHANGED <<configuration, sync_state_file, sync_state, sync_cache, sync_todo,
                   sync_current, fetch_passes, associations_todo, sync_association, clock,
                   client_created, state_read, sync_requests, sync_written, state_writes,
                   committed_state_file>>
    /\ UNCHANGED <<sync_files, association_requests>>
    /\ sync_frame

\* self.state = self.get_state_file(); self.state["last_run"] = self._parse_date("now")
\* (no custom object is configured: _validate_custom_objects passes)
get_state_file ==
    /\ sync_pc = "validated"
    /\ sync_pc' = "state_read"
    /\ sync_state' = DictSet(sync_state_file, "last_run", clock)
    /\ state_read' = TRUE
    /\ UNCHANGED <<configuration, sync_state_file, sync_cache, sync_todo, sync_current,
                   fetch_passes, associations_todo, sync_association, sync_error, clock,
                   client_created, sync_requests, sync_written, state_writes,
                   committed_state_file>>
    /\ UNCHANGED <<sync_files, association_requests>>
    /\ sync_frame

\* self._init_client(), then the loop over the enabled endpoints begins
_init_client ==
    /\ sync_pc = "state_read"
    /\ sync_pc' = "fetching"
    /\ client_created' = TRUE
    /\ sync_todo' = configuration.enabled
    /\ associations_todo' = configuration.associations
    /\ UNCHANGED <<configuration, sync_state_file, sync_state, sync_cache, sync_current,
                   fetch_passes, sync_association, sync_error, clock, state_read,
                   sync_requests, sync_written, state_writes, committed_state_file>>
    /\ UNCHANGED <<sync_files, association_requests>>
    /\ sync_frame

\* _init_table_handler(handler_name, table_schema): a handler is created only if
\* the cache has none of that name; its writer opens the table's file
sync_init_table_handler(cache, handler_name) ==
    IF handler_name \in DOMAIN cache THEN cache
    ELSE DictSet(cache, handler_name,
                 [fieldnames |-> _add_columns_from_state_to_column_list(
                                     StateGet(sync_state, handler_name), <<"id">>),
                  rows |-> <<>>,
                  opened |-> 1])

AssociationBatchSize == 1

\* the file of a table whose handler has just been opened
open_file(files, handler_name, cache) ==
    DictSet(files, handler_name,
            [column_names |-> cache[handler_name].fieldnames,
             fieldnames |-> cache[handler_name].fieldnames,
             rows |-> <<>>])

\* the id of the record that a page of a partition carries
RecordId(partition, page) == partition \o "-" \o ToString(page)

\* {**c, **properties} of the record of a page, reduced to its id: no other
\* value of a row is read back
written_row(pass) ==
    [key \in {"id"} |-> RecordId(pass.partition, pass.pages + 1)]

\* the line the writer leaves in the file for a row: the values under its
\* final field names, '' for a key the row has not
CsvLine(row, fieldnames) ==
    [i \in 1..Len(fieldnames) |->
        IF fieldnames[i] \in DOMAIN row THEN row[fieldnames[i]] ELSE ""]

\* csv.DictReader(infile, fieldnames=column_names): a line as a dict
DictReaderLine(line, column_names) ==
    [name \in Range(column_names) |->
        LET i == CHOOSE n \in 1..Len(column_names) : column_names[n] = name
        IN  IF i <= Len(line) THEN line[i] ELSE None]

\* variant: the first line is taken for a header
_get_object_ids_after_header(files, object_type, id_name) ==
    LET file == files[object_type]
    IN  [i \in 1..(Len(file.rows) - 1) |->
            DictReaderLine(CsvLine(file.rows[i + 1], file.fieldnames),
                           file.column_names)[id_name]]

\* _get_object_ids(object_type, id_name): line.get(id_name) of every line of the
\* file of self._created_tables.get(object_type)
_get_object_ids(files, object_type, id_name) ==
    LET file == files[object_type]
    IN  [i \in 1..Len(file.rows) |->
            DictReaderLine(CsvLine(file.rows[i], file.fieldnames),
                           file.column_names)[id_name]]

\* client.get_associations_v4(object_id_generator, ...): the ids of its batch
\* reads, one batch of the configured size after the other
get_associations_v4_batches(object_ids) ==
    divide_chunks(object_ids, AssociationBatchSize, 0)

\* process_endpoint(endpoint_name) up to the first fetch: _process_basic_crm_object
\* opens the handler
sync_process_endpoint ==
    /\ sync_pc = "fetching"
    /\ sync_current = None
    /\ sync_todo # <<>>
    /\ sync_current' = Head(sync_todo)
    /\ sync_todo' = Tail(sync_todo)
    /\ sync_cache' = sync_init_table_handler(sync_cache, Head(sync_todo))
    /\ sync_written' = sync_written \cup {"table " \o Head(sync_todo)}
    /\ fetch_passes' = DictSet(fetch_passes, Head(sync_todo), <<>>)
    /\ sync_files' = open_file(sync_files, Head(sync_todo), sync_cache')
    /\ UNCHANGED association_requests
    /\ UNCHANGED <<sync_pc, configuration, sync_state_file, sync_state, associations_todo,
                   sync_association, sync_error, clock, client_created, state_read,
                   sync_requests, state_writes, committed_state_file>>
    /\ sync_frame

\* variant: the active pass first
fetch_and_write_to_table_calls_active_first(archived) ==
    IF archived THEN <<FALSE, TRUE>> ELSE <<FALSE>>

\* _process_basic_crm_object: the archived argument of its fetch_and_write_to_table
\* calls, in order: one call with the configured flag if it is set, then one with False
fetch_and_write_to_table_calls(archived) ==
    IF archived THEN <<TRUE, FALSE>> ELSE <<FALSE>>

\* the client method of a kind and _fetch_object_data: what one call requests
fetch_request(object_name, incremental, archived) ==
    LET archived_passed_on == IF object_name \in ArchivedNotSupported THEN FALSE ELSE archived
    IN  IF incremental
            THEN [api |-> "search", partition |-> "changed since"]
            ELSE [api |-> "basic",
                  partition |-> IF archived_passed_on THEN "archived" ELSE "active"]

\* the fetches one endpoint makes, in order
PlannedPasses(object_name) ==
    IF object_name \in CrmObjects
        THEN LET calls == fetch_and_write_to_table_calls(configuration.archived)
             IN [i \in 1..Len(calls) |->
                    LET request == fetch_request(
                                       object_name,
                                       configuration.fetch_mode # FULL_FETCH,
                                       calls[i])
                    IN [archived |-> calls[i], api |-> request.api,
                        partition |-> request.partition, pages |-> 0, done |-> FALSE]]
        ELSE <<>>

PassRunning ==
    /\ sync_current # None
    /\ sync_current \in DOMAIN fetch_passes
    /\ fetch_passes[sync_current] # <<>>
    /\ ~fetch_passes[sync_current][Len(fetch_passes[sync_current])].done

\* fetch_and_write_to_table is called: the next pass of the endpoint starts
fetch_and_write_to_table ==
    /\ sync_pc = "fetching"
    /\ sync_current # None
    /\ ~PassRunning
    /\ Len(fetch_passes[sync_current]) < Len(PlannedPasses(sync_current))
    /\ fetch_passes' =
          DictSet(fetch_passes, sync_current,
                  Append(fetch_passes[sync_current],
                         PlannedPasses(sync_current)[Len(fetch_passes[sync_current]) + 1]))
    /\ UNCHANGED <<sync_pc, configuration, sync_state_file, sync_state, sync_cache, sync_todo,
                   sync_current, associations_todo, sync_association, sync_error, clock,
                   client_created, state_read, sync_requests, sync_written, state_writes,
                   committed_state_file>>
    /\ UNCHANGED <<sync_files, association_requests>>
    /\ sync_frame

\* one page of the running pass arrives and its rows are written; last: the
\* generator is exhausted after it
fetch_page ==
    /\ sync_pc = "fetching"
    /\ PassRunning
    /\ sync_current \in DOMAIN sync_cache
    /\ LET passes == fetch_passes[sync_current]
           n == Len(passes)
           handler == sync_cache[sync_current]
       IN \E new \in SUBSET NewColumns, last \in BOOLEAN :
            /\ passes[n].pages + 1 >= MaxPages => last
            /\ \E order \in Orderings(new \ Range(handler.fieldnames)) :
                 /\ sync_cache' =
                    DictSet(sync_cache, sync_current,
                            [handler EXCEPT !.fieldnames = handler.fieldnames \o order,
                                            !.rows = Append(handler.rows, passes[n].partition)])
                 /\ sync_files' =
                       DictSet(sync_files, sync_current,
                               [sync_files[sync_current] EXCEPT
                                   !.fieldnames = handler.fieldnames \o order,
                                   !.rows = Append(@, written_row(passes[n]))])
            /\ fetch_passes' =
                  DictSet(fetch_passes, sync_current,
                          [passes EXCEPT ![n] = [passes[n] EXCEPT !.pages = passes[n].pages + 1,
                                                                  !.done = last]])
    /\ sync_requests' = sync_requests + 1
    /\ UNCHANGED <<sync_pc, configuration, sync_state_file, sync_state, sync_todo,
                   sync_current, associations_todo, sync_association, sync_error, clock,
                   client_created, state_read, sync_written, state_writes,
                   committed_state_file, association_requests>>
    /\ sync_frame

\* a request of the running pass fails: process_endpoint turns a
\* HubspotClientException into a UserException, anything else passes through
process_endpoint_fails ==
    /\ sync_pc = "fetching"
    /\ PassRunning
    /\ \E exception \in ClientErrors : sync_error' = as_user_exception(exception)
    /\ sync_pc' = escalate(sync_pc)
    /\ sync_requests' = sync_requests + 1
    /\ UNCHANGED <<configuration, sync_state_file, sync_state, sync_cache, sync_todo,
                   sync_current, fetch_passes, associations_todo, sync_association, clock,
                   client_created, state_read, sync_written, state_writes,
                   committed_state_file>>
    /\ UNCHANGED <<sync_files, association_requests>>
    /\ sync_frame

\* every pass of the endpoint is exhausted: process_endpoint returns
process_endpoint_returns ==
    /\ sync_pc = "fetching"
    /\ sync_current # None
    /\ ~PassRunning
    /\ Len(fetch_passes[sync_current]) = Len(PlannedPasses(sync_current))
    /\ sync_current' = None
    /\ UNCHANGED <<sync_pc, configuration, sync_state_file, sync_state, sync_cache, sync_todo,
                   fetch_passes, associations_todo, sync_association, sync_error, clock,
                   client_created, state_read, sync_requests, sync_written, state_writes,
                   committed_state_file>>
    /\ UNCHANGED <<sync_files, association_requests>>
    /\ sync_frame

\* variant: the handlers are closed at any point of the loop
loop_finished_or_not(todo, in_progress) == TRUE

\* the loop over the endpoints (over the associations) has ended
loop_finished(todo, in_progress) == todo = <<>> /\ ~in_progress

\* _close_table_handlers, after the endpoints and again after the associations:
\* every writer of the cache is closed, state[name] = its final field names,
\* its manifest is written, and the cache is emptied
sync_close_table_handlers ==
    /\ \/ /\ sync_pc = "fetching"
          /\ loop_finished(sync_todo, sync_current # None)
          /\ sync_pc' = "associating"
       \/ /\ sync_pc = "associating"
          /\ loop_finished(associations_todo, sync_association # NoAssociation)
          /\ sync_pc' = "closed"
    /\ sync_state' = [n \in (DOMAIN sync_state) \cup (DOMAIN sync_cache) |->
                         IF n \in DOMAIN sync_cache
                             THEN sync_cache[n].fieldnames
                             ELSE sync_state[n]]
    /\ sync_written' = sync_written \cup {"manifest " \o n : n \in DOMAIN sync_cache}
    /\ sync_cache' = EmptyDict
    /\ sync_files' = [n \in DOMAIN sync_files |->
                         IF n \in DOMAIN sync_cache
                             THEN [sync_files[n] EXCEPT
                                      !.column_names = _closed_column_names(sync_files[n])]
                             ELSE sync_files[n]]
    /\ UNCHANGED association_requests
    /\ UNCHANGED <<configuration, sync_state_file, sync_todo, sync_current, fetch_passes,
                   associations_todo, sync_association, sync_error, clock, client_created,
                   state_read, sync_requests, state_writes, committed_state_file>>
    /\ sync_frame

\* association_schema.name
association_schema_name(association) ==
    association.from_object \o "_to_" \o association.to_object \o "_association"

\* process_association(association) up to the first batch read
process_association ==
    /\ sync_pc = "associating"
    /\ sync_association = NoAssociation
    /\ associations_todo # <<>>
    /\ sync_association' = Head(associations_todo)
    /\ associations_todo' = Tail(associations_todo)
    /\ sync_cache' = sync_init_table_handler(sync_cache,
                                             association_schema_name(Head(associations_todo)))
    /\ sync_written' = sync_written
                          \cup {"table " \o association_schema_name(Head(associations_todo))}
    /\ UNCHANGED <<sync_pc, configuration, sync_state_file, sync_state, sync_todo,
                   sync_current, fetch_passes, sync_error, clock, client_created, state_read,
                   sync_requests, state_writes, committed_state_file>>
    /\ UNCHANGED <<sync_files, association_requests>>
    /\ sync_frame

\* the batch reads already made for an association
batches_read(requests, association) ==
    Len(SelectSeq(requests, LAMBDA request : request.association = association))

\* fetch_associations: the ids are read from the table of the from-object; one
\* batch is read and its rows are written; after the last batch the generator
\* is exhausted and process_association returns
fetch_associations ==
    /\ sync_pc = "associating"
    /\ sync_association # NoAssociation
    /\ association_schema_name(sync_association) \in DOMAIN sync_cache
    /\ LET name == association_schema_name(sync_association)
           handler == sync_cache[name]
           object_id_generator == _get_object_ids(sync_files, sync_association.from_object, "id")
           batches == get_associations_v4_batches(object_id_generator)
           k == batches_read(association_requests, sync_association)
       IN  IF batches = <<>>
           THEN /\ sync_association' = NoAssociation
                /\ UNCHANGED <<sync_cache, sync_requests, association_requests>>
           ELSE /\ sync_cache' = DictSet(sync_cache, name,
                                         [handler EXCEPT !.rows = Append(handler.rows, "edges")])
                /\ association_requests' =
                      Append(association_requests,
                             [association |-> sync_association, ids |-> batches[k + 1]])
                /\ sync_requests' = sync_requests + 1
                /\ sync_association' =
                      IF k + 1 = Len(batches) THEN NoAssociation ELSE sync_association
    /\ UNCHANGED <<sync_pc, configuration, sync_state_file, sync_state, sync_todo,
                   sync_current, fetch_passes, associations_todo, sync_error, clock,
                   client_created, state_read, sync_written, state_writes,
                   committed_state_file, sync_files>>
    /\ sync_frame

\* a batch read fails: process_association turns a HubspotClientException into a
\* UserException, anything else passes through
process_association_fails ==
    /\ sync_pc = "associating"
    /\ sync_association # NoAssociation
    /\ \E exception \in ClientErrors : sync_error' = as_user_exception(exception)
    /\ sync_pc' = escalate(sync_pc)
    /\ sync_requests' = sync_requests + 1
    /\ UNCHANGED <<configuration, sync_state_file, sync_state, sync_cache, sync_todo,
                   sync_current, fetch_passes, associations_todo, sync_association, clock,
                   client_created, state_read, sync_written, state_writes,
                   committed_state_file>>
    /\ UNCHANGED <<sync_files, association_requests>>
    /\ sync_frame

\* self.write_state_file(self.state), the last statement of run()
sync_write_state_file ==
    /\ sync_pc = "closed"
    /\ sync_pc' = "idle"
    /\ sync_state_file' = sync_state
    /\ state_writes' = state_writes + 1
    /\ sync_written' = sync_written \cup {"state"}
    /\ committed_state_file' = IF sync_error = None THEN sync_state ELSE committed_state_file
    /\ UNCHANGED <<configuration, sync_state, sync_cache, sync_todo, sync_current,
                   fetch_passes, associations_todo, sync_association, sync_error, clock,
                   client_created, state_read, sync_requests>>
    /\ UNCHANGED <<sync_files, association_requests>>
    /\ sync_frame

\* before the first run: no state file
SyncInit ==
    /\ sync_pc = "idle"
    /\ configuration = [enabled |-> <<>>, associations |-> <<>>,
                        fetch_mode |-> FULL_FETCH, archived |-> FALSE]
    /\ sync_state_file = EmptyDict
    /\ sync_state = EmptyDict
    /\ sync_cache = EmptyDict
    /\ sync_todo = <<>>
    /\ sync_current = None
    /\ fetch_passes = EmptyDict
    /\ associations_todo = <<>>
    /\ sync_association = NoAssociation
    /\ sync_error = None
    /\ clock = 0
    /\ client_created = FALSE
    /\ state_read = FALSE
    /\ sync_requests = 0
    /\ sync_written = {}
    /\ state_writes = 0
    /\ committed_state_file = EmptyDict
    /\ sync_files = EmptyDict
    /\ association_requests = <<>>

SyncNext ==
    \/ _init_configuration
    \/ _validate_associations
    \/ get_state_file
    \/ _init_client
    \/ sync_process_endpoint
    \/ fetch_and_write_to_table
    \/ fetch_page
    \/ process_endpoint_fails
    \/ process_endpoint_returns
    \/ sync_close_table_handlers
    \/ process_association
    \/ fetch_associations
    \/ process_association_fails
    \/ sync_write_state_file

\* ------------------------------------------------------------------------
\* HubspotClient._check_http_result / _raise_exception_from_status_code (client.py)
\* ------------------------------------------------------------------------

CheckedStatuses == {200, 204, 302, 400, 401, 403, 404, 409, 429, 500, 502, 504, 524, 599, 600}

CheckedEndpoints == {ENDPOINTS_CONTACT_LISTS, ENDPOINT_FORMS, "campaigns", "contact"}

ReasonTexts == {"Unauthorized", "Forbidden", "Not Found"}

\* response.reason: a str, or bytes that are valid utf-8 or not
Reasons == [type : {"str", "utf-8 bytes", "iso-8859-1 bytes"}, text : ReasonTexts]

\* _decode_response_reason: bytes are decoded as utf-8, as iso-8859-1 if that
\* fails; a str is returned as it is
_decode_response_reason(reason) == reason.text

\* {status_code} in an f-string
status_code_text(status_code) ==
    CASE status_code = 400 -> "400" [] status_code = 404 -> "404" [] status_code = 409 -> "409"
      [] status_code = 429 -> "429" [] status_code = 500 -> "500" [] status_code = 502 -> "502"
      [] status_code = 504 -> "504" [] status_code = 524 -> "524" [] status_code = 599 -> "599"
      [] OTHER -> "status"

\* the message of the exception _raise_exception_from_status_code raises, as the
\* parts of its f-string; <<>> when it returns without raising
_raise_exception_from_status_code(status_code, endpoint, reason) ==
    IF status_code = 401
        THEN << "Unauthorized request, please make sure your credentials are valid. ",
                "\n ", reason >>
    ELSE IF status_code = 403
        THEN << "Unauthorized request, please make sure your credentials contain the correct ",
                "scopes. The request failed during endpoint \"", endpoint, "\", ",
                "make sure you have the read access scope for this endpoint. ",
                "\n ", reason >>
    ELSE IF 400 <= status_code /\ status_code < 600
        THEN << "Request to \"", endpoint, "\" failed ", status_code_text(status_code),
                " Error : ", reason >>
    ELSE <<>>

check_done(caller, status_code, endpoint, reason, message) ==
    /\ ck_pc = "idle"
    /\ ck_caller' = caller
    /\ ck_status_code' = status_code
    /\ ck_endpoint' = endpoint
    /\ ck_reason' = reason
    /\ ck_message' = message
    /\ ck_pc' = IF message = <<>> THEN "returned" ELSE "raised"
    /\ ck_frame

\* _check_http_result(response, endpoint), after a raw HTTP request
_check_http_result ==
    \E status_code \in CheckedStatuses, endpoint \in CheckedEndpoints, reason \in Reasons :
        check_done("_check_http_result", status_code, endpoint, reason,
                   _raise_exception_from_status_code(
                       status_code, endpoint, _decode_response_reason(reason)))

\* except exception as exc: of _get_page_result and _get_search_result; exc.body is a str
_get_page_result_except ==
    \E status_code \in CheckedStatuses, endpoint \in CheckedEndpoints,
       reason \in {r \in Reasons : r.type = "str"} :
        check_done("_get_page_result", status_code, endpoint, reason,
                   _raise_exception_from_status_code(status_code, endpoint, reason.text))

CheckInit ==
    /\ ck_pc = "idle"
    /\ ck_caller = None
    /\ ck_status_code = 0
    /\ ck_endpoint = None
    /\ ck_reason = [type |-> "str", text |-> "Unauthorized"]
    /\ ck_message = <<>>

CheckNext ==
    \/ _check_http_result
    \/ _get_page_result_except

\* ------------------------------------------------------------------------
\* HubspotClient.__init__ (client.py): the retry settings of the two transports
\* ------------------------------------------------------------------------

MAX_RETRIES == 5

Transports == {"sdk", "raw"}

\* statuses the server answers with
ServerStatuses == {200, 400, 401, 403, 404, 429, 500, 502, 504, 524}

\* status_forcelist of urlibRetry (sdk) and of HttpClient.__init__ (raw)
status_forcelist(transport) ==
    IF transport = "sdk" THEN {429, 500, 502, 504} ELSE {429, 500, 502, 504, 524}

\* the retries a transport allows: total=MAX_RETRIES for the sdk; the raw client
\* is created without max_retries and runs with the default of HttpClient
RetryBudgets(transport) ==
    IF transport = "sdk" THEN {MAX_RETRIES} ELSE {MAX_RETRIES, 2 * MAX_RETRIES}

\* a call of the client starts on one of the transports
send_request ==
    /\ rt_pc = "idle"
    /\ \E transport \in Transports :
        /\ rt_transport' = transport
        /\ \E budget \in RetryBudgets(transport) : rt_budget' = budget
    /\ rt_pc' = "requesting"
    /\ rt_requests' = 0
    /\ rt_status' = 0
    /\ rt_retried' = {}
    /\ rt_frame

\* the request is sent and answered with a status that is retried
retry_response ==
    /\ rt_pc = "requesting"
    /\ \E status \in ServerStatuses \cap status_forcelist(rt_transport) :
        /\ rt_status' = status
        /\ rt_requests' = rt_requests + 1
        /\ IF rt_requests < rt_budget
             THEN rt_pc' = "requesting" /\ rt_retried' = rt_retried \cup {status}
             ELSE rt_pc' = "exhausted" /\ UNCHANGED rt_retried
    /\ UNCHANGED <<rt_transport, rt_budget>>
    /\ rt_frame

\* the request is sent and answered with a status that is not retried: the
\* response reaches the client code
final_response ==
    /\ rt_pc = "requesting"
    /\ \E status \in ServerStatuses \ status_forcelist(rt_transport) :
        rt_status' = status
    /\ rt_requests' = rt_requests + 1
    /\ rt_pc' = "returned"
    /\ UNCHANGED <<rt_transport, rt_budget, rt_retried>>
    /\ rt_frame

RetryInit ==
    /\ rt_pc = "idle"
    /\ rt_transport = None
    /\ rt_budget = 0
    /\ rt_requests = 0
    /\ rt_status = 0
    /\ rt_retried = {}

RetryNext ==
    \/ send_request
    \/ retry_response
    \/ final_response

\* ------------------------------------------------------------------------
\* Specifications
\* ------------------------------------------------------------------------

\* ------------------------------------------------------------------------
\* Component.fetch_and_write_to_table and _process_property_history
\*
\* An ordered dict (properties_with_history) is the sequence of its items
\* [key, value] in insertion order.  A value that may be None is a sequence
\* of length 0 (None) or 1.
\* ------------------------------------------------------------------------

MaxEvents == 2

HistoryObjects == {"contact", "quote"}
RecordIds == {"1", "2"}
HistoryProperties == {"email", "name"}

\* ValueWithTimestamp of the SDK
HistoryEvents ==
    {[value |-> "v1", timestamp |-> "t1", source_type |-> "API"],
     [value |-> "v2", timestamp |-> "t2", source_type |-> "CRM_UI"]}

EventLists == SeqsUpTo(HistoryEvents, MaxEvents)

PropertiesWithHistory ==
    {<<>>}
    \cup {<<[key |-> p, value |-> l]>> : p \in HistoryProperties, l \in EventLists}
    \cup {<<[key |-> p, value |-> l], [key |-> q, value |-> m]>> :
             p \in {"email"}, q \in {"name"}, l \in EventLists, m \in EventLists}
    \cup {<<[key |-> q, value |-> l], [key |-> p, value |-> m]>> :
             p \in {"email"}, q \in {"name"}, l \in EventLists, m \in EventLists}

\* SimplePublicObjectWithAssociations.to_dict()
Items ==
    {[id |-> i, properties |-> p, associations |-> a, properties_with_history |-> h] :
        i \in RecordIds,
        p \in {EmptyDict, [email |-> "v2"]},
        a \in {<<>>, <<EmptyDict>>},
        h \in {<<>>} \cup {<<d>> : d \in PropertiesWithHistory}}

\* variant: one row per property, of its first event
_process_property_history_first_event(hs_object_name_, hs_object_id, properties_with_history) ==
    LET kept == SelectSeq(properties_with_history, LAMBDA item : item.value # <<>>)
    IN  [k \in 1..Len(kept) |->
            [hs_object |-> hs_object_name_,
             hs_object_id |-> hs_object_id,
             hs_object_property_name |-> kept[k].key,
             source_type |-> kept[k].value[1].source_type,
             value |-> kept[k].value[1].value,
             timestamp |-> kept[k].value[1].timestamp]]

RECURSIVE _process_property_history_loop(_, _, _)
_process_property_history_loop(hs_object_name_, hs_object_id, items) ==
    IF items = <<>> THEN <<>>
    ELSE LET property_history_ == Head(items).key
             events == Head(items).value
         IN  [i \in 1..Len(events) |->
                 [hs_object |-> hs_object_name_,
                  hs_object_id |-> hs_object_id,
                  hs_object_property_name |-> property_history_,
                  source_type |-> events[i].source_type,
                  value |-> events[i].value,
                  timestamp |-> events[i].timestamp]]
             \o _process_property_history_loop(hs_object_name_, hs_object_id, Tail(items))

\* _process_property_history(hs_object_name, hs_object_id, properties_with_history)
_process_property_history(hs_object_name_, hs_object_id, properties_with_history) ==
    _process_property_history_loop(hs_object_name_, hs_object_id, properties_with_history)

\* c.pop(key) for the keys of c that are in keys
Popped(c, keys) == [k \in (DOMAIN c) \ keys |-> c[k]]

\* {**c, **properties}
Merged(c, properties) ==
    [k \in (DOMAIN c) \cup (DOMAIN properties) |->
        IF k \in DOMAIN properties THEN properties[k] ELSE c[k]]

\* `if properties_with_history`: neither None nor an empty dict
Truthy(properties_with_history) ==
    properties_with_history # <<>> /\ properties_with_history[1] # <<>>

\* the body of the loop over the items of a page
write_item ==
    /\ hs_pc = "idle"
    /\ \E object_name \in HistoryObjects, enabled \in BOOLEAN, item \in Items :
          LET c == Popped(item, {"properties", "associations", "properties_with_history"})
              properties == item.properties
              properties_with_history == item.properties_with_history
          IN  /\ hs_object_name' = object_name
              /\ fetch_property_history' = enabled
              /\ hs_item' = item
              /\ property_history' =
                    IF Truthy(properties_with_history) /\ enabled
                    THEN property_history
                         \o _process_property_history(object_name, c["id"],
                                                      properties_with_history[1])
                    ELSE property_history
              /\ hs_row' = Merged(c, properties)
    /\ hs_pc' = "written"
    /\ hs_frame

HistoryInit ==
    /\ hs_pc = "idle"
    /\ hs_object_name = None
    /\ fetch_property_history = FALSE
    /\ hs_item = EmptyDict
    /\ hs_row = EmptyDict
    /\ property_history = <<>>

HistoryNext ==
    \/ write_item

\* ------------------------------------------------------------------------
\* HubspotClient.get_contacts .. get_engagements_emails and _fetch_object_data
\* (client.py 58-267, 319-340)
\* ------------------------------------------------------------------------

SinceDates == {0, 1000, 2000}

\* the getters: what each passes to _fetch_object_data, and whether it resets
\* archived.  An API is named by its attribute path under client_v3.
ObjectGetters ==
    [contact   |-> [endpoint_name |-> "contact",
                    search_api |-> "crm.contacts.search_api",
                    basic_api |-> "crm.contacts.basic_api",
                    exception |-> "contacts.ApiException",
                    since_property |-> "lastmodifieddate", resets_archived |-> FALSE],
     company   |-> [endpoint_name |-> "company",
                    search_api |-> "crm.companies.search_api",
                    basic_api |-> "crm.companies.basic_api",
                    exception |-> "companies.ApiException",
                    since_property |-> "hs_lastmodifieddate", resets_archived |-> FALSE],
     deal      |-> [endpoint_name |-> "deal",
                    search_api |-> "crm.deals.search_api",
                    basic_api |-> "crm.deals.basic_api",
                    exception |-> "deals.ApiException",
                    since_property |-> "hs_lastmodifieddate", resets_archived |-> FALSE],
     line_item |-> [endpoint_name |-> "line_item",
                    search_api |-> "crm.line_items.search_api",
                    basic_api |-> "crm.line_items.basic_api",
                    exception |-> "line_items.ApiException",
                    since_property |-> "hs_lastmodifieddate", resets_archived |-> FALSE],
     product   |-> [endpoint_name |-> "product",
                    search_api |-> "crm.products.search_api",
                    basic_api |-> "crm.products.basic_api",
                    exception |-> "products.ApiException",
                    since_property |-> "hs_lastmodifieddate", resets_archived |-> FALSE],
     quote     |-> [endpoint_name |-> "quote",
                    search_api |-> "crm.quotes.search_api",
                    basic_api |-> "crm.quotes.basic_api",
                    exception |-> "quotes.ApiException",
                    since_property |-> "hs_lastmodifieddate", resets_archived |-> TRUE],
     ticket    |-> [endpoint_name |-> "ticket",
                    search_api |-> "crm.quotes.search_api",
                    basic_api |-> "crm.tickets.basic_api",
                    exception |-> "tickets.ApiException",
                    since_property |-> "hs_lastmodifieddate", resets_archived |-> FALSE],
     note      |-> [endpoint_name |-> "note",
                    search_api |-> "crm.objects.notes.search_api",
                    basic_api |-> "crm.objects.notes.basic_api",
                    exception |-> "notes.ApiException",
                    since_property |-> "hs_lastmodifieddate", resets_archived |-> TRUE],
     call      |-> [endpoint_name |-> "call",
                    search_api |-> "crm.objects.calls.search_api",
                    basic_api |-> "crm.objects.calls.basic_api",
                    exception |-> "calls.ApiException",
                    since_property |-> "hs_lastmodifieddate", resets_archived |-> TRUE],
     task      |-> [endpoint_name |-> "task",
                    search_api |-> "crm.objects.tasks.search_api",
                    basic_api |-> "crm.objects.tasks.basic_api",
                    exception |-> "tasks.ApiException",
                    since_property |-> "hs_lastmodifieddate", resets_archived |-> TRUE],
     meeting   |-> [endpoint_name |-> "meeting",
                    search_api |-> "crm.objects.meetings.search_api",
                    basic_api |-> "crm.objects.meetings.basic_api",
                    exception |-> "meetings.ApiException",
                    since_property |-> "hs_lastmodifieddate", resets_archived |-> TRUE],
     email     |-> [endpoint_name |-> "email",
                    search_api |-> "crm.objects.emails.search_api",
                    basic_api |-> "crm.objects.emails.basic_api",
                    exception |-> "emails.ApiException",
                    since_property |-> "hs_lastmodifieddate", resets_archived |-> TRUE]]

\* _fetch_object_data: the first call of the pagination it returns
_fetch_object_data_call(getter, incremental, archived, since_date) ==
    IF incremental
    THEN [api |-> getter.search_api,
          method |-> "do_search",
          endpoint_name |-> getter.endpoint_name,
          exception |-> getter.exception,
          filter_groups |-> <<[filters |-> <<[value |-> since_date,
                                              propertyName |-> getter.since_property,
                                              operator |-> "GTE"]>>]>>,
          sorts |-> <<[propertyName |-> getter.since_property,
                       direction |-> "DESCENDING"]>>,
          limit |-> BATCH_LIMIT,
          archived |-> FALSE]
    ELSE [api |-> getter.basic_api,
          method |-> "get_page",
          endpoint_name |-> getter.endpoint_name,
          exception |-> getter.exception,
          filter_groups |-> <<>>,
          sorts |-> <<>>,
          limit |-> PAGE_WITH_HISTORY_MAX_SIZE,
          archived |-> archived]

\* a getter is called: data_generator(**data_generator_kwargs)
get_object_data ==
    /\ dp_pc = "idle"
    /\ \E object \in DOMAIN ObjectGetters, incremental \in BOOLEAN, archived \in BOOLEAN,
          since_date \in SinceDates :
          LET getter == ObjectGetters[object] IN
          /\ dp_object' = object
          /\ dp_incremental' = incremental
          /\ dp_archived' = archived
          /\ dp_since_date' = since_date
          /\ dp_call' = _fetch_object_data_call(getter, incremental,
                                                archived /\ ~getter.resets_archived,
                                                since_date)
    /\ dp_pc' = "requested"
    /\ dp_frame

DispatchInit ==
    /\ dp_pc = "idle"
    /\ dp_object = None
    /\ dp_incremental = FALSE
    /\ dp_archived = FALSE
    /\ dp_since_date = 0
    /\ dp_call = EmptyDict

DispatchNext ==
    \/ get_object_data

\* ------------------------------------------------------------------------
\* Component.run, since_fetch_date, _parse_date (component.py 55-79, 94-100,
\* 415-426).  Timestamps are counted in hours: 3600000 ms is 1.
\* ------------------------------------------------------------------------

MaxTicks == 3

\* the time of the first run
FirstRunAt == 490000

\* dateparser.parse(DEFAULT_DATE_FROM): 1990-01-01
DEFAULT_DATE_FROM == 175320

\* the 3600000 ms taken off last_run
LAST_RUN_MARGIN == 1

WindowConfigs ==
    {[fetch_mode |-> m, date_from |-> d] :
        m \in {FULL_FETCH, INCREMENTAL_FETCH}, d \in {"last run", "now"}}

\* variant: last_run is read from self.state, where run() has put the start
\* of the current run
_parse_date_of_run_state(date_to_parse, state_file_, state_, now) ==
    IF date_to_parse \in {"last", "lastrun", "last run"}
    THEN (IF "last_run" \in DOMAIN state_ THEN state_["last_run"] ELSE DEFAULT_DATE_FROM)
         - LAST_RUN_MARGIN
    ELSE now

\* _parse_date(date_to_parse); state = self.get_state_file() reads the state file
_parse_date(date_to_parse, state_file_, state_, now) ==
    IF date_to_parse \in {"last", "lastrun", "last run"}
    THEN (IF "last_run" \in DOMAIN state_file_ THEN state_file_["last_run"]
          ELSE DEFAULT_DATE_FROM)
         - LAST_RUN_MARGIN
    ELSE now

\* the since_fetch_date property
since_fetch_date(config, state_file_, state_, now) ==
    IF config.fetch_mode = INCREMENTAL_FETCH
    THEN _parse_date(config.date_from, state_file_, state_, now)
    ELSE 0

\* time passes
window_tick ==
    /\ wn_now < FirstRunAt + MaxTicks
    /\ wn_now' = wn_now + 1
    /\ UNCHANGED <<wn_pc, wn_config, wn_state_file, wn_state, wn_runs, wn_runs_log,
                   wn_fetches>>
    /\ wn_frame

\* run(), up to the loop over the endpoints:
\* self.state = self.get_state_file(); self.state["last_run"] = self._parse_date("now")
window_run ==
    /\ wn_pc = "idle"
    /\ wn_runs < MaxRuns
    /\ \E config \in WindowConfigs : wn_config' = config
    /\ wn_state' = DictSet(wn_state_file, "last_run",
                           _parse_date("now", wn_state_file, wn_state, wn_now))
    /\ wn_runs' = wn_runs + 1
    /\ wn_runs_log' = Append(wn_runs_log, [started_at |-> wn_now, ended |-> "running"])
    /\ wn_pc' = "started"
    /\ UNCHANGED <<wn_now, wn_state_file, wn_fetches>>
    /\ wn_frame

\* _process_basic_crm_object: "since_date": self.since_fetch_date, and the fetch
window_fetch ==
    /\ wn_pc = "started"
    /\ wn_fetches' =
          Append(wn_fetches,
                 [run |-> wn_runs,
                  since_date |-> since_fetch_date(wn_config, wn_state_file, wn_state, wn_now),
                  at |-> wn_now,
                  incremental |-> wn_config.fetch_mode # FULL_FETCH,
                  date_from |-> wn_config.date_from,
                  state_file |-> wn_state_file])
    /\ wn_pc' = "fetched"
    /\ UNCHANGED <<wn_now, wn_config, wn_state_file, wn_state, wn_runs, wn_runs_log>>
    /\ wn_frame

\* an exception leaves run(): the state file is not written
window_run_fails ==
    /\ wn_pc \in {"started", "fetched"}
    /\ wn_pc' = "idle"
    /\ wn_runs_log' = [wn_runs_log EXCEPT ![wn_runs].ended = "failed"]
    /\ UNCHANGED <<wn_now, wn_config, wn_state_file, wn_state, wn_runs, wn_fetches>>
    /\ wn_frame

\* self.write_state_file(self.state), the last statement of run()
window_write_state_file ==
    /\ wn_pc = "fetched"
    /\ wn_pc' = "idle"
    /\ wn_state_file' = wn_state
    /\ wn_runs_log' = [wn_runs_log EXCEPT ![wn_runs].ended = "succeeded"]
    /\ UNCHANGED <<wn_now, wn_config, wn_state, wn_runs, wn_fetches>>
    /\ wn_frame

WindowInit ==
    /\ wn_pc = "idle"
    /\ wn_now = FirstRunAt
    /\ wn_config = [fetch_mode |-> FULL_FETCH, date_from |-> "now"]
    /\ wn_state_file = EmptyDict
    /\ wn_state = EmptyDict
    /\ wn_runs = 0
    /\ wn_runs_log = <<>>
    /\ wn_fetches = <<>>

WindowNext ==
    \/ window_tick
    \/ window_run
    \/ window_fetch
    \/ window_run_fails
    \/ window_write_state_file

vars ==
    <<pgvars, v3vars, runvars, thvars, flvars, asvars, pavars, syncvars, ckvars, rtvars,
      hsvars,
      dpvars,
      wnvars>>

PagedInit ==
    /\ pg_pc = "idle"
    /\ pg_endpoint = None
    /\ res_obj_name = None
    /\ parameters = EmptyDict
    /\ offset = None
    /\ limit = DEFAULT_V1_LIMIT
    /\ has_more = FALSE
    /\ pg_requests = <<>>
    /\ pg_responses = <<>>
    /\ pg_pages = <<>>
    /\ pg_error = None
    /\ events_left = <<>>
    /\ pg_initial = EmptyDict

Init ==
    /\ PagedInit /\ V3Init /\ RunInit /\ TableInit /\ FlattenInit /\ AssociationsInit
    /\ ParseAssociationInit /\ SyncInit /\ CheckInit /\ RetryInit /\ HistoryInit /\ DispatchInit /\ WindowInit

PagedNext ==
    \/ get_campaigns
    \/ get_contact_lists
    \/ get_email_statistics
    \/ get_email_events
    \/ get_email_events_next
    \/ paged_iteration

SpecPaged == Init /\ [][PagedNext]_vars

V3Next ==
    \/ get_forms
    \/ get_owners
    \/ _fetch_object_data
    \/ paged_v3_iteration
    \/ sdk_v3_iteration

SpecV3 == Init /\ [][V3Next]_vars

SpecRun == Init /\ [][RunNext]_vars

SpecTable == Init /\ [][TableNext]_vars

SpecFlatten == Init /\ [][FlattenNext]_vars

SpecAssociations == Init /\ [][AssociationsNext]_vars

SpecParseAssociation == Init /\ [][ParseAssociationNext]_vars

SpecSync == Init /\ [][SyncNext]_vars

SpecCheck == Init /\ [][CheckNext]_vars

SpecRetry == Init /\ [][RetryNext]_vars

SpecHistory == Init /\ [][HistoryNext]_vars

SpecDispatch == Init /\ [][DispatchNext]_vars

SpecWindow == Init /\ [][WindowNext]_vars

\* ------------------------------------------------------------------------
\* Properties of the offset-style pagination
\* ------------------------------------------------------------------------

IsJsonSuccess(resp) ==
    resp.outcome = "response" /\ ~_raises_for_status(resp.status_code) /\ resp.is_json

\* the response says, in its endpoint's own has-more field, that more data follows
ReportsMore(endpoint, resp) ==
    /\ IsJsonSuccess(resp)
    /\ ServerHasMoreField(endpoint) \in DOMAIN resp.body
    /\ resp.body[ServerHasMoreField(endpoint)] = TRUE

\* a response that reports more data names the offset to continue from
WellFormed(endpoint, resp) ==
    ReportsMore(endpoint, resp) => "offset" \in DOMAIN resp.body

\* the result array the response carries, [] if it carries none
ResultArray(resp, resKey) ==
    IF resKey \in DOMAIN resp.body THEN resp.body[resKey] ELSE <<>>

ConventionA == pg_endpoint \in {ENDPOINT_CAMPAIGNS_BY_ID, ENDPOINT_EMAIL_EVENTS, ENDPOINT_EMAIL_STATISTICS}

\* the statement of C1 for a pagination that has received k responses so far
PagedTerminationHolds ==
    LET k == Len(pg_responses) IN
    /\ Len(pg_requests) = k
    /\ Len(pg_pages) = k
    /\ \A i \in 1..k : pg_pages[i] = ResultArray(pg_responses[i], res_obj_name)
    /\ \A i \in 1..(k - 1) : ReportsMore(pg_endpoint, pg_responses[i])
    /\ (k >= 1) => ((pg_pc = "done") <=> ~ReportsMore(pg_endpoint, pg_responses[k]))
    /\ (pg_pc = "done") => ~ENABLED paged_iteration

\* C1: an offset-style pagination that has received k responses so far has
\* issued exactly k requests and yielded exactly k pages, the i-th page being
\* the i-th response's result array; every response but the last reported
\* has-more = true (in its endpoint's has-more field); the pagination is finished
\* exactly when the last response did not report has-more = true, whatever
\* offset it carries, and a finished pagination issues no further request.
\* (Stated for responses that name an offset whenever they report more data.)
C1_PagedTermination ==
    ( /\ pg_pc \in {"running", "done"}
      /\ \A i \in 1..Len(pg_responses) : WellFormed(pg_endpoint, pg_responses[i]) ) =>
        PagedTerminationHolds

\* The same statement restricted to the endpoints whose has-more field is
\* hasMore (campaigns, email events, email statistics): it holds there.
PagedTerminationConventionA ==
    (ConventionA /\ pg_pc \in {"running", "done"}) => PagedTerminationHolds

\* C2: every request after the first carries the offset returned by the
\* immediately preceding response, and every request carries the same limit.
C2_OffsetFedBack ==
    \A i \in 1..Len(pg_requests) :
        /\ "limit" \in DOMAIN pg_requests[i]
        /\ pg_requests[i]["limit"] = pg_requests[1]["limit"]
        /\ (i > 1) =>
            /\ "offset" \in DOMAIN pg_responses[i - 1].body
            /\ "offset" \in DOMAIN pg_requests[i]
            /\ pg_requests[i]["offset"] = pg_responses[i - 1].body["offset"]

\* a third request whose offset differs from the one the first response returned
C2_Witness ==
    /\ Len(pg_requests) = 3
    /\ pg_responses[1].body["offset"] # pg_responses[2].body["offset"]
    /\ pg_requests[3]["offset"] = pg_responses[2].body["offset"]

\* C3: the first request of a pagination started without an explicit offset
\* carries limit = 1000 and has no 'offset' key in its query parameters.
C3_FirstRequestWithoutOffsetKey ==
    (Len(pg_requests) >= 1) =>
        /\ "limit" \in DOMAIN pg_requests[1]
        /\ pg_requests[1]["limit"] = DEFAULT_V1_LIMIT
        /\ "offset" \notin DOMAIN pg_requests[1]

\* C4: on the contact-lists endpoint a response with has-more = true is followed
\* by a further request: the pagination is not finished after such a response.
C4_ContactListsFollowHasMore ==
    (pg_endpoint = ENDPOINTS_CONTACT_LISTS /\ pg_pc = "done") =>
        ~ReportsMore(pg_endpoint, pg_responses[Len(pg_responses)])

\* C5: every request of a contact-lists pagination carries count = 250 and no
\* limit parameter.
C5_ContactListsCountParameter ==
    (pg_endpoint = ENDPOINTS_CONTACT_LISTS) =>
        \A i \in 1..Len(pg_requests) :
            /\ "count" \in DOMAIN pg_requests[i]
            /\ pg_requests[i]["count"] = 250
            /\ "limit" \notin DOMAIN pg_requests[i]

C7_CallerParametersPreserved ==
    \A i \in 1..Len(pg_requests) :
        /\ \A k \in (DOMAIN pg_initial) \ {"limit", "offset"} :
              k \in DOMAIN pg_requests[i] /\ pg_requests[i][k] = pg_initial[k]
        /\ DOMAIN pg_requests[i] \subseteq (DOMAIN pg_initial) \cup {"limit", "offset"}

\* an email-events pagination in its second request, eventType still there
C7_Witness ==
    /\ Len(pg_requests) = 2
    /\ "eventType" \in DOMAIN pg_initial
    /\ pg_requests[2]["offset"] \in Offsets

\* ------------------------------------------------------------------------
\* Properties of the cursor-token pagination
\* ------------------------------------------------------------------------

\* the response is a page (no error) ...
IsPage(resp) == resp.outcome = "response" /\ ~_raises_for_status(resp.status_code) /\ resp.is_json

\* ... that contains the nested token paging.next.after
HasAfterToken(resp) ==
    /\ "paging" \in DOMAIN resp.body
    /\ "next" \in DOMAIN resp.body["paging"]
    /\ "after" \in DOMAIN resp.body["paging"]["next"]

\* C8: in a cursor-token pagination the page of every response is yielded; after
\* a page that contains paging.next.after the pagination goes on and the next
\* request carries that token as 'after'; after a page in which any part of
\* that path is absent the pagination has ended normally.
C8_CursorTokenContinuation ==
    LET k == Len(v3_responses) IN
    /\ (k >= 1 /\ IsPage(v3_responses[k])) =>
          /\ Len(v3_pages) = k
          /\ IF HasAfterToken(v3_responses[k])
               THEN v3_pc = "running"
               ELSE v3_pc = "done" /\ v3_error = None
    /\ \A i \in 2..Len(v3_requests) :
          /\ HasAfterToken(v3_responses[i - 1])
          /\ "after" \in DOMAIN v3_requests[i]
          /\ v3_requests[i]["after"] = v3_responses[i - 1].body["paging"]["next"]["after"]

\* ------------------------------------------------------------------------
\* Properties of the column state
\* ------------------------------------------------------------------------

\* the columns the previous successful run committed for a handler
Committed(h) == StateGet(state_file, h)

\* C9: the column list a handler's writer is opened with is the committed
\* columns followed by the candidate (declared schema) columns that are not
\* committed, in candidate order.
C9_OpenedWithCommittedFirst ==
    (run_pc = "fetching") =>
        \A h \in DOMAIN opened_with :
            opened_with[h] = Committed(h) \o NotIn(candidate[h], Committed(h))

\* C10: when a successful run persists its state, every column the previous run
\* had committed for a handler fetched in this run is in the column list
\* committed for it now and in the column list of its manifest.
C10_CommittedColumnsNeverShrink ==
    [][ (run_pc = "closed" /\ run_pc' = "idle") =>
            \A h \in DOMAIN opened_with :
                \A col \in Range(Committed(h)) :
                    /\ h \in DOMAIN state_file'
                    /\ col \in Range(state_file'[h])
                    /\ h \in DOMAIN manifests'
                    /\ col \in Range(manifests'[h]) ]_vars

\* a run about to persist its state for a handler whose previous commit holds a
\* column that neither the declared schema nor any row of this run carries
C10_Witness ==
    /\ run_pc = "closed"
    /\ \E h \in DOMAIN opened_with :
        \E col \in Range(Committed(h)) :
            /\ col \notin Range(candidate[h])
            /\ col \notin row_columns[h]
            /\ col \in Range(state[h])
            /\ col \in Range(manifests[h])

\* the written row of the run in which a column was first observed
FirstObservedAt(observed, col) == CHOOSE i \in 1..Len(observed) : col \in observed[i]

\* tail lists, once each, the observed columns that are not in the opening list,
\* a column first observed in an earlier row before one of a later row
InObservationOrder(tail, observed, opening) ==
    /\ \A i, j \in 1..Len(tail) : (i # j) => (tail[i] # tail[j])
    /\ Range(tail) = (UNION Range(observed)) \ Range(opening)
    /\ \A i, j \in 1..Len(tail) :
          (i < j) => (FirstObservedAt(observed, tail[i]) <= FirstObservedAt(observed, tail[j]))

\* the state a run that closed its tables holds, persisted once it has ended
ClosedState == IF run_pc = "closed" THEN state ELSE state_file

\* C11: when a handler's table has been closed after a successful pull, the
\* columns committed to the state for it are the column list its writer was
\* opened with, followed by every column first observed in a written row of
\* the run, in the order of the rows that first carried them.
C11_CommittedAreFinalFieldNames ==
    (run_pc \in {"closed", "idle"}) =>
        \A h \in DOMAIN opened_with :
            LET committed == ClosedState[h]
                n == Len(opened_with[h])
            IN /\ Len(committed) >= n
               /\ SubSeq(committed, 1, n) = opened_with[h]
               /\ InObservationOrder(SubSeq(committed, n + 1, Len(committed)),
                                     first_observed[h], opened_with[h])

\* a closed handler whose rows brought two new columns in two different rows,
\* and also carried a column of the opening list
C11_Witness ==
    /\ run_pc = "closed"
    /\ \E h \in DOMAIN opened_with :
          /\ Len(state[h]) >= Len(opened_with[h]) + 2
          /\ FirstObservedAt(first_observed[h], state[h][Len(state[h]) - 1])
                < FirstObservedAt(first_observed[h], state[h][Len(state[h])])
          /\ row_columns[h] \cap Range(opened_with[h]) # {}

\* the keys of a column-metadata dict
MetadataKeys(column_metadata) == {column_metadata[i][1] : i \in 1..Len(column_metadata)}

\* C12: when a table is closed, the column metadata written to its manifest has
\* an entry for a described column (a field of the schema) if and only if the
\* column is not in the column list the previous run committed for the handler.
C12_MetadataOnlyForNewColumns ==
    (run_pc = "closed") =>
        \A h \in DOMAIN opened_with :
            MetadataKeys(manifest_column_metadata[h]) =
                {col \in Range(candidate[h]) : col \notin Range(Committed(h))}

\* C13: no column name written to a manifest or committed to the state has 64
\* or more characters, whatever keys the records of the run carried.
C13_ColumnNamesLengthNormalized ==
    (run_pc \in {"closed", "idle"}) =>
        \A h \in DOMAIN opened_with :
            \A col \in Range(ClosedState[h]) \cup Range(manifests[h]) : Len(col) < 64

\* ------------------------------------------------------------------------
\* Properties of the name normalization
\* ------------------------------------------------------------------------

DuplicateFree(seq) == \A i, j \in 1..Len(seq) : (i # j) => (seq[i] # seq[j])

\* the name that length normalization gives a column name: the first 30
\* characters, '_' and the md5 hex digest for a name of 64 or more characters,
\* the name itself otherwise
ShortenedName(column_name) ==
    IF Len(column_name) >= 64
        THEN SubSeq(column_name, 1, 30) \o "_" \o _hash_column(column_name)
        ELSE column_name

\* the names that length normalization gives the names of a list
NormalizedNames(names) == [i \in 1..Len(names) |-> ShortenedName(names[i])]

\* the part of C14 about the columns and the metadata keys
LengthNormalizationOfColumnsAndMetadata ==
    (th_op = "shorten") =>
        /\ th_fieldnames = NormalizedNames(th_before.fieldnames)
        /\ th_columns = th_fieldnames
        /\ MetadataKeys(th_column_metadata) =
              {ShortenedName(k) : k \in MetadataKeys(th_before.column_metadata)}
        /\ MetadataKeys(th_column_metadata) \subseteq Range(th_columns)

\* C14: length normalization replaces every column name of 64 or more
\* characters by its first 30 characters, '_' and the md5 hex digest of the
\* name, leaves shorter names unchanged, and applies the same mapping to the
\* metadata keys and to the primary-key list, so that afterwards every primary
\* key and every metadata key names a column of the table.
C14_LengthNormalization ==
    (th_op = "shorten") =>
        /\ LengthNormalizationOfColumnsAndMetadata
        /\ th_primary_key = NormalizedNames(th_before.primary_key)
        /\ Range(th_primary_key) \subseteq Range(th_columns)

\* C15: length normalization and name aliasing of a duplicate-free column list
\* give a duplicate-free column list.
C15_NormalizationKeepsNamesDistinct ==
    (th_op \in {"shorten", "swap"} /\ DuplicateFree(th_before.fieldnames)) =>
        DuplicateFree(th_fieldnames)

\* the name aliasing with M gives a name
Aliased(M, name) == IF name \in DOMAIN M THEN M[name] ELSE name

AliasedNames(M, names) == [i \in 1..Len(names) |-> Aliased(M, names[i])]

\* C16: name aliasing with a mapping M replaces every occurrence of a key of M
\* by its value in the writer's field names, the definition's columns, the
\* metadata keys and the primary-key list, and leaves every other name and the
\* order of the lists unchanged (metadata entries keep their values and their
\* order; entries whose keys become equal are one entry of the dict).
C16_NameAliasing ==
    (th_op = "swap") =>
        LET M == th_column_swaps
            metadata == th_before.column_metadata
        IN /\ th_fieldnames = AliasedNames(M, th_before.fieldnames)
           /\ th_columns = AliasedNames(M, th_before.columns)
           /\ th_primary_key = AliasedNames(M, th_before.primary_key)
           /\ MetadataKeys(th_column_metadata) =
                 {Aliased(M, k) : k \in MetadataKeys(metadata)}
           /\ DuplicateFree([i \in 1..Len(metadata) |-> Aliased(M, metadata[i][1])]) =>
                 th_column_metadata =
                    [i \in 1..Len(metadata) |-> <<Aliased(M, metadata[i][1]), metadata[i][2]>>]

\* an aliasing that renamed a column which is a primary key and has metadata,
\* next to a column the mapping does not name
C16_Witness ==
    /\ th_op = "swap"
    /\ \E i \in 1..Len(th_before.fieldnames) :
          /\ th_before.fieldnames[i] \in DOMAIN th_column_swaps
          /\ th_before.fieldnames[i] \in Range(th_before.primary_key)
          /\ th_before.fieldnames[i] \in MetadataKeys(th_before.column_metadata)
          /\ th_fieldnames[i] # th_before.fieldnames[i]
          /\ th_fieldnames[i] \in Range(th_primary_key)
    /\ \E j \in 1..Len(th_fieldnames) :
          /\ th_before.fieldnames[j] \notin DOMAIN th_column_swaps
          /\ th_before.fieldnames[j] \in MetadataKeys(th_column_metadata)

\* ------------------------------------------------------------------------
\* Properties of the flattening
\* ------------------------------------------------------------------------

\* the sequences of at most n keys
RECURSIVE KeyPaths(_)
KeyPaths(n) ==
    IF n = 0 THEN {<<>>}
    ELSE KeyPaths(n - 1) \cup {Append(path, k) : path \in KeyPaths(n - 1), k \in FlattenKeys}

\* the path leads through nested mappings of the value
RECURSIVE HasPath(_, _)
HasPath(value, path) ==
    \/ path = <<>>
    \/ /\ IsDict(value)
       /\ Head(path) \in DOMAIN value.dict
       /\ HasPath(value.dict[Head(path)], Tail(path))

\* the value at the end of a path the value has
RECURSIVE ValueAt(_, _)
ValueAt(value, path) ==
    IF path = <<>> THEN value ELSE ValueAt(value.dict[Head(path)], Tail(path))

\* the keys of a path joined with the separator
RECURSIVE JoinedKey(_)
JoinedKey(path) ==
    IF Len(path) = 1 THEN path[1]
    ELSE JoinedKey(SubSeq(path, 1, Len(path) - 1)) \o "_" \o path[Len(path)]

\* the paths of the record whose value is at depth Len(path), not expanded, and
\* reached through values that were expanded
StoredPaths(record, max_depth) ==
    {path \in KeyPaths(MaxParsingDepth + 1) :
        /\ path # <<>>
        /\ HasPath(record, path)
        /\ Len(path) - 1 <= max_depth
        /\ ~(IsDict(ValueAt(record, path)) /\ Len(path) <= max_depth)}

\* C17: flatten expands a value only while it is a mapping and its depth (0 for
\* the record, +1 per level) is <= max_depth, joining the keys with the
\* separator, and stores every other value verbatim under its joined key; so an
\* output key has at most max_depth+1 components and a mapping is stored only
\* under a key of exactly max_depth+1 components.
C17_FlattenDepthBudget ==
    (fl_pc = "parsed") =>
        LET stored == StoredPaths(fl_row, max_parsing_depth)
        IN /\ DOMAIN fl_parsed = {JoinedKey(path) : path \in stored}
           /\ \A path \in stored :
                 /\ fl_parsed[JoinedKey(path)] = ValueAt(fl_row, path)
                 /\ Len(path) <= max_parsing_depth + 1
                 /\ IsDict(ValueAt(fl_row, path)) => (Len(path) = max_parsing_depth + 1)

\* {"a": {"b": {"a": "1"}}} parsed with max_parsing_depth = 1 is {"a_b": {"a": "1"}}
C17_Witness ==
    /\ fl_pc = "parsed"
    /\ max_parsing_depth = 1
    /\ fl_row = [dict |-> [x \in {"a"} |->
                    [dict |-> [y \in {"b"} |-> [dict |-> [z \in {"a"} |-> [str |-> "1"]]]]]]]
    /\ fl_parsed = [x \in {"a_b"} |-> [dict |-> [z \in {"a"} |-> [str |-> "1"]]]]

\* C18: a list, a list of nested mappings included, is never descended into:
\* wherever flatten reaches it, at any depth and for any max_depth, it is stored
\* unchanged under its joined key.
C18_ListsStoredVerbatim ==
    (fl_pc = "parsed") =>
        \A path \in KeyPaths(MaxParsingDepth + 1) :
            ( /\ path # <<>>
              /\ HasPath(fl_row, path)
              /\ IsList(ValueAt(fl_row, path))
              /\ Len(path) - 1 <= max_parsing_depth ) =>
                /\ JoinedKey(path) \in DOMAIN fl_parsed
                /\ fl_parsed[JoinedKey(path)] = ValueAt(fl_row, path)

\* a list of a nested mapping stored at depth 3 and another at depth 1, with
\* depth budget left
C18_Witness ==
    /\ fl_pc = "parsed"
    /\ max_parsing_depth = MaxParsingDepth
    /\ "a_b_a" \in DOMAIN fl_parsed
    /\ IsList(fl_parsed["a_b_a"])
    /\ fl_parsed["a_b_a"].list # <<>>
    /\ "b" \in DOMAIN fl_parsed
    /\ IsList(fl_parsed["b"])

\* no value of the mapping is a mapping
IsFlat(record) == \A k \in DOMAIN record.dict : ~IsDict(record.dict[k])

\* C19: a mapping that is already flat is returned as it is, for every
\* max_depth >= 0, also when it is itself the result of a flatten; the empty
\* record gives the empty mapping.
C19_FlatIsFixpoint ==
    (fl_pc \in {"parsed", "reparsed"}) =>
        /\ IsFlat(fl_row) => (fl_parsed = fl_row.dict)
        /\ (DOMAIN fl_row.dict = {}) => (fl_parsed = EmptyDict)

\* the flat result of flattening a nested record, flattened again
C19_Witness ==
    /\ fl_pc = "reparsed"
    /\ IsFlat(fl_row)
    /\ "a_b" \in DOMAIN fl_row.dict
    /\ "b" \in DOMAIN fl_row.dict
    /\ IsList(fl_row.dict["b"])
    /\ fl_parsed = fl_row.dict

\* ------------------------------------------------------------------------
\* Properties of the association batches
\* ------------------------------------------------------------------------

\* ceil(n / b)
CeilDiv(n, b) == (n + b - 1) \div b

\* the number of items in the first j batches
RECURSIVE ItemsBefore(_, _)
ItemsBefore(batches, j) ==
    IF j = 0 THEN 0 ELSE ItemsBefore(batches, j - 1) + Len(batches[j])

\* batches divides items into ceil(n/b) batches of b items, the last one
\* possibly shorter, and the batches one after the other are the items
IsBatching(items, batches, b) ==
    /\ Len(batches) = CeilDiv(Len(items), b)
    /\ \A j \in 1..Len(batches) :
          /\ Len(batches[j]) >= 1
          /\ Len(batches[j]) <= b
          /\ (j < Len(batches)) => (Len(batches[j]) = b)
    /\ ItemsBefore(batches, Len(batches)) = Len(items)
    /\ \A j \in 1..Len(batches) : \A i \in 1..Len(batches[j]) :
          batches[j][i] = items[ItemsBefore(batches, j - 1) + i]

\* the ids of the inputs of a batch read
InputIds(request) == [i \in 1..Len(request) |-> request[i].id]

\* C20: for n ids and batch size b exactly ceil(n/b) batch requests are issued
\* (none for n = 0), every batch has at most b ids, every batch but the last
\* exactly b, and the batches one after the other are the ids in their
\* original order.
C20_AssociationBatches ==
    /\ (as_pc = "done") =>
          IsBatching(as_object_ids,
                     [j \in 1..Len(as_requests) |-> InputIds(as_requests[j])], as_list_len)
    /\ (as_pc = "divided") => IsBatching(as_object_ids, as_chunks, as_list_len)

\* 250 ids read in batches of 100, 100 and 50
C20_Witness ==
    /\ as_pc = "done"
    /\ Len(as_object_ids) = 250
    /\ as_list_len = 100
    /\ Len(as_requests) = 3
    /\ Len(as_requests[1]) = 100
    /\ Len(as_requests[2]) = 100
    /\ Len(as_requests[3]) = 50

\* ------------------------------------------------------------------------
\* Unpacking a batch result into edges
\* ------------------------------------------------------------------------

\* the (source, target, type) positions of a batch result
EdgePositions(raw) ==
    { <<i, j, k>> \in (1..Len(raw)) \X (1..2) \X (1..2) :
        /\ j <= Len(raw[i].to)
        /\ k <= Len(raw[i].to[j].association_types) }

LexLess(p, q) ==
    \/ p[1] < q[1]
    \/ p[1] = q[1] /\ p[2] < q[2]
    \/ p[1] = q[1] /\ p[2] = q[2] /\ p[3] < q[3]

\* the place of a position in input order
EdgeRank(raw, p) == 1 + Cardinality({q \in EdgePositions(raw) : LexLess(q, p)})

EdgeAt(raw, p, from_kind, to_kind) ==
    [from_id |-> raw[p[1]]._from_id,
     to_id |-> raw[p[1]].to[p[2]].to_object_id,
     from_object_type |-> from_kind,
     to_object_type |-> to_kind,
     category |-> raw[p[1]].to[p[2]].association_types[p[3]].category,
     label |-> raw[p[1]].to[p[2]].association_types[p[3]].label,
     type_id |-> raw[p[1]].to[p[2]].association_types[p[3]].type_id]

\* C21: unpacking a batch result emits exactly one row per source record,
\* target of it and typed relationship of that target, in input order, each
\* carrying the ids, the requested from and to kinds and the category, label
\* and type id of the relationship; a target without a typed relationship
\* yields no row and nothing else is emitted.
C21_OneEdgePerTypedRelationship ==
    pa_pc = "parsed" =>
        /\ Len(parsed_data) = Cardinality(EdgePositions(raw_data))
        /\ \A p \in EdgePositions(raw_data) :
             parsed_data[EdgeRank(raw_data, p)]
                 = EdgeAt(raw_data, p, from_object_type, to_object_type)

\* two source records, a target with two typed relationships and a target with none
C21_Witness ==
    /\ pa_pc = "parsed"
    /\ Len(raw_data) = 2
    /\ \E i \in 1..2 : \E j \in 1..Len(raw_data[i].to) :
         Len(raw_data[i].to[j].association_types) = 2
    /\ \E i \in 1..2 : \E j \in 1..Len(raw_data[i].to) :
         raw_data[i].to[j].association_types = <<>>
    /\ Len(parsed_data) >= 3

\* ------------------------------------------------------------------------
\* The order of a run: validation, passes, commit of the state
\* ------------------------------------------------------------------------

SyncTypeOK ==
    /\ sync_pc \in {"idle", "configured", "validated", "state_read", "fetching",
                    "associating", "closed", "failed"}
    /\ configuration \in Configurations
    /\ clock \in 0..MaxRuns

\* some configured association starts from a kind that is not fetched in the run
InvalidAssociation ==
    {a \in Range(configuration.associations) :
        a.from_object \notin Range(configuration.enabled)} # {}

\* C22: when a configured association names a from-object kind that is not
\* enabled, the run fails with a UserException once the associations have been
\* validated: the state has not been read, no client has been created, no
\* request has been issued and nothing has been written.
C22_InvalidAssociationFailsFirst ==
    (InvalidAssociation /\ sync_pc # "configured") =>
        /\ sync_pc = "failed"
        /\ sync_error = "UserException"
        /\ ~state_read
        /\ ~client_created
        /\ sync_requests = 0
        /\ sync_written = {}
        /\ sync_state_file = committed_state_file

\* a second run, after a run that committed a state, is rejected by the validation
C22_Witness ==
    /\ InvalidAssociation
    /\ sync_pc = "failed"
    /\ clock = 2
    /\ "contact" \in DOMAIN sync_state_file
    /\ "contact" \in Range(configuration.enabled)

\* C23: once an exception has left a fetch of an object kind or of an
\* association, the run is over and has not written the state file: the file
\* still is the one the last run without error left.
C23_FailedRunKeepsStateFile ==
    sync_error # None =>
        /\ sync_pc = "failed"
        /\ state_writes = 0
        /\ "state" \notin sync_written
        /\ sync_state_file = committed_state_file

\* an association fetch fails after the endpoints were closed with new columns,
\* in a run that follows a successful one
C23_Witness ==
    /\ sync_error = "UserException"
    /\ sync_association # NoAssociation
    /\ "contact" \in DOMAIN sync_state
    /\ "contact" \in DOMAIN sync_state_file
    /\ sync_state["contact"] # sync_state_file["contact"]
    /\ sync_state["last_run"] # sync_state_file["last_run"]

\* a failure while an object kind is fetched
C23_EndpointFailure ==
    /\ sync_error # None
    /\ sync_current # None
    /\ sync_requests > 0

IncrementalFetch == configuration.fetch_mode = INCREMENTAL_FETCH

\* C28: in incremental fetch mode no pass of a CRM object kind is started with
\* archived = true and every kind is pulled by at most one pass, whatever the
\* configured archived flag is.
C28_IncrementalForcesArchivedOff ==
    IncrementalFetch =>
        \A kind \in DOMAIN fetch_passes :
            /\ Len(fetch_passes[kind]) <= 1
            /\ \A i \in 1..Len(fetch_passes[kind]) : ~fetch_passes[kind][i].archived

\* pages written by the i-th pass, 0 if it has not started
PagesOf(passes, i) == IF i <= Len(passes) THEN passes[i].pages ELSE 0

\* the archived partition, then the active one, into one handler opened once
ArchivedThenActive(kind) ==
    LET passes == fetch_passes[kind]
    IN /\ Len(passes) <= 2
       /\ Len(passes) >= 1 => passes[1].partition = "archived"
       /\ Len(passes) = 2 => passes[1].done /\ passes[2].partition = "active"
       /\ kind \in DOMAIN sync_cache =>
            /\ sync_cache[kind].opened = 1
            /\ sync_cache[kind].rows =
                  [i \in 1..(PagesOf(passes, 1) + PagesOf(passes, 2))
                      |-> IF i <= PagesOf(passes, 1) THEN "archived" ELSE "active"]

OnlyActive(kind) ==
    /\ Len(fetch_passes[kind]) <= 1
    /\ \A i \in 1..Len(fetch_passes[kind]) : fetch_passes[kind][i].partition = "active"

\* C29: in full fetch mode, for every CRM object kind, with archived requested
\* the archived partition is pulled to completion and then the active one, both
\* into the one handler opened for the kind; without it only the active
\* partition is pulled.
C29_ArchivedThenActive ==
    (~IncrementalFetch /\ sync_pc \in {"fetching", "failed"}) =>
        \A kind \in DOMAIN fetch_passes :
            IF configuration.archived THEN ArchivedThenActive(kind) ELSE OnlyActive(kind)

\* the same, for the kinds whose client method hands the archived flag on
ArchivedThenActiveWhereSupported ==
    (~IncrementalFetch /\ sync_pc \in {"fetching", "failed"}) =>
        \A kind \in (DOMAIN fetch_passes) \ ArchivedNotSupported :
            IF configuration.archived THEN ArchivedThenActive(kind) ELSE OnlyActive(kind)

ArchivedThenActiveWitness ==
    /\ ~IncrementalFetch
    /\ configuration.archived
    /\ "contact" \in DOMAIN sync_cache
    /\ Len(fetch_passes["contact"]) = 2
    /\ fetch_passes["contact"][2].pages >= 1

RunInProgress == sync_pc \in {"fetching", "associating", "closed"}

\* the kind's fetch has returned and its writer has been closed
PullCompleted(kind) ==
    /\ kind \notin DOMAIN sync_cache
    /\ kind # sync_current
    /\ kind \notin Range(sync_todo)
    /\ kind \in DOMAIN fetch_passes
    /\ \A i \in 1..Len(fetch_passes[kind]) : fetch_passes[kind][i].done

\* C30: while a run is in progress the in-memory state entry of a handler whose
\* writer is still open is the committed one, an entry differs from the
\* committed one only after the kind's pull has completed and its writer has
\* been closed, and the state file is written at most once, when every
\* endpoint and every association has completed without error.
C30_StateReplacedAfterCloseOnly ==
    /\ RunInProgress =>
          /\ \A name \in DOMAIN sync_cache :
                StateGet(sync_state, name) = StateGet(sync_state_file, name)
          /\ \A kind \in Range(EndpointOrder) :
                StateGet(sync_state, kind) # StateGet(sync_state_file, kind)
                    => PullCompleted(kind)
          /\ state_writes = 0
          /\ sync_state_file = committed_state_file
    /\ state_writes <= 1
    /\ state_writes = 1 =>
          /\ sync_pc = "idle"
          /\ sync_error = None
          /\ sync_todo = <<>> /\ sync_current = None
          /\ associations_todo = <<>> /\ sync_association = NoAssociation
          /\ sync_cache = EmptyDict
          /\ sync_state_file = sync_state

\* a pull has observed a column the state does not hold
C30_Witness ==
    /\ sync_pc = "fetching"
    /\ sync_current = "contact"
    /\ "x" \in Range(sync_cache["contact"].fieldnames)
    /\ "x" \notin Range(StateGet(sync_state, "contact"))
    /\ "quote" \in DOMAIN sync_state
    /\ sync_state["quote"] = <<"id">>

\* the state file is written with the columns of a completed pull
C30_Committed ==
    /\ state_writes = 1
    /\ clock = 2
    /\ "contact" \in DOMAIN sync_state_file
    /\ "x" \in Range(sync_state_file["contact"])
    /\ "contact_to_company_association" \in DOMAIN sync_state_file

\* ------------------------------------------------------------------------
\* What a failed fetch raises
\* ------------------------------------------------------------------------

\* C24: a pagination over one of the cursor-token paths (raw HTTP, SDK object
\* pages, SDK search pages) that ends with an exception ends with a
\* HubspotClientException and with no other exception type.
C24_OnlyClientExceptionEscapes ==
    v3_pc = "raised" => v3_error = "HubspotClientException"

\* the same for the offset-style pages
OnlyClientExceptionEscapesOffsetPages ==
    pg_pc = "raised" => pg_error = "HubspotClientException"

\* the same for the association batch reads
OnlyClientExceptionEscapesBatchReads ==
    as_pc = "raised" => as_error = "HubspotClientException"

\* a success status with a body that is not JSON
NotJsonSuccess(resp) ==
    /\ resp.outcome = "response"
    /\ ~_raises_for_status(resp.status_code)
    /\ ~resp.is_json

\* C25: a body that is not JSON, returned with a success status to a
\* cursor-token page request over raw HTTP, ends the pagination at once: it is
\* the last request, no page is yielded for it, and the exception raised is a
\* HubspotClientException.
C25_NotJsonIsClientParseFailure ==
    v3_path = "raw" =>
        \A i \in 1..Len(v3_responses) :
            NotJsonSuccess(v3_responses[i]) =>
                /\ i = Len(v3_responses)
                /\ Len(v3_pages) = i - 1
                /\ v3_pc = "raised"
                /\ v3_error = "HubspotClientException"

\* the same for the offset-style pages
NotJsonIsClientParseFailureOffsetPages ==
    \A i \in 1..Len(pg_responses) :
        NotJsonSuccess(pg_responses[i]) =>
            /\ i = Len(pg_responses)
            /\ pg_pc = "raised"
            /\ pg_error = "HubspotClientException"

\* ------------------------------------------------------------------------
\* The message of an error status
\* ------------------------------------------------------------------------

\* statuses a transport retries
RetriedStatuses == UNION {status_forcelist(transport) : transport \in Transports}

NotRetried4xx(status_code) ==
    /\ 400 <= status_code /\ status_code < 500
    /\ status_code \notin RetriedStatuses

\* C26: for every 4xx status that is not retried the exception is raised and
\* its message names the endpoint and carries the reason text; the 401 and the
\* 403 message differ.
C26_MessageNamesEndpointAndReason ==
    /\ (ck_pc # "idle" /\ NotRetried4xx(ck_status_code)) =>
          /\ ck_pc = "raised"
          /\ ck_endpoint \in Range(ck_message)
          /\ ck_reason.text \in Range(ck_message)
    /\ \A endpoint \in CheckedEndpoints, reason \in ReasonTexts :
          _raise_exception_from_status_code(401, endpoint, reason)
              # _raise_exception_from_status_code(403, endpoint, reason)

\* the same without the 401
MessageNamesEndpointAndReasonBut401 ==
    /\ (ck_pc # "idle" /\ NotRetried4xx(ck_status_code) /\ ck_status_code # 401) =>
          /\ ck_pc = "raised"
          /\ ck_endpoint \in Range(ck_message)
          /\ ck_reason.text \in Range(ck_message)
    /\ (ck_pc # "idle" /\ ck_status_code = 401) =>
          /\ ck_pc = "raised"
          /\ ck_reason.text \in Range(ck_message)

\* ------------------------------------------------------------------------
\* The retry policy
\* ------------------------------------------------------------------------

RetryPolicy(transports) ==
    rt_transport \in transports =>
        /\ rt_retried \subseteq {429, 500, 502, 504}
        /\ rt_pc = "requesting" => rt_requests <= MAX_RETRIES
        /\ rt_pc = "exhausted" =>
              rt_status \in {429, 500, 502, 504} /\ rt_requests = MAX_RETRIES + 1
        /\ (rt_pc = "returned" /\ rt_requests > 1) =>
              rt_retried # {} /\ rt_requests <= MAX_RETRIES + 1
        /\ (400 <= rt_status /\ rt_status < 500 /\ rt_status # 429) =>
              /\ rt_pc = "returned"
              /\ rt_retried = {} => rt_requests = 1

\* C27: on both transports a retry follows only a response with status 429,
\* 500, 502 or 504, a call is retried at most MAX_RETRIES times before it is
\* given up, and a 401, 403 or other 4xx response is never followed by another
\* request: it reaches the client code, as the only response when it is the first.
C27_RetryPolicyOnBothTransports ==
    RetryPolicy(Transports)

\* the same for the SDK transport alone
RetryPolicyOfSdk ==
    RetryPolicy({"sdk"})

\* ------------------------------------------------------------------------
\* What flatten keeps of a record
\* ------------------------------------------------------------------------

Parsed == fl_pc \in {"parsed", "parsed_separator"}

\* the string starts with the prefix
StartsWith(string, prefix) ==
    /\ Len(string) >= Len(prefix)
    /\ SubSeq(string, 1, Len(prefix)) = prefix

\* C36: every top-level key of a non-empty record is represented in the
\* output of flatten by a key that equals it or starts with it followed by the
\* separator, also when its value, or a nested value within the depth budget,
\* is an empty mapping.
C36_FlattenLosesNoKey ==
    (Parsed /\ DOMAIN fl_row.dict # {}) =>
        \A k \in DOMAIN fl_row.dict :
            \E o \in DOMAIN fl_parsed :
                o = k \/ StartsWith(o, k \o child_separator)

\* the same for records without an empty mapping within the depth budget
RECURSIVE NoEmptyMapping(_, _)
NoEmptyMapping(value, levels) ==
    \/ ~IsDict(value)
    \/ levels = 0
    \/ /\ DOMAIN value.dict # {}
       /\ \A k \in DOMAIN value.dict : NoEmptyMapping(value.dict[k], levels - 1)

FlattenLosesNoKeyWithoutEmptyMappings ==
    (Parsed /\ DOMAIN fl_row.dict # {}
        /\ NoEmptyMapping(fl_row, max_parsing_depth + 1)) =>
        \A k \in DOMAIN fl_row.dict :
            \E o \in DOMAIN fl_parsed :
                o = k \/ StartsWith(o, k \o child_separator)

\* key paths of up to n keys, keys with the separator included
RECURSIVE AllKeyPaths(_)
AllKeyPaths(n) ==
    IF n = 0 THEN {<<>>}
    ELSE AllKeyPaths(n - 1)
            \cup {Append(path, k) : path \in AllKeyPaths(n - 1),
                                    k \in FlattenKeys \cup SeparatorKeys}

\* the paths of the values flatten stores: not expanded, reached through
\* values that were expanded
StoredLeaves(record, max_depth) ==
    {path \in AllKeyPaths(MaxParsingDepth + 1) :
        /\ path # <<>>
        /\ HasPath(record, path)
        /\ Len(path) - 1 <= max_depth
        /\ ~(IsDict(ValueAt(record, path)) /\ Len(path) <= max_depth)}

\* C37: distinct stored leaves of the record go to distinct output keys: the
\* output has as many entries as the record has stored leaves, also when a key
\* of the record contains the separator.
C37_FlattenLosesNoValue ==
    Parsed =>
        Cardinality(DOMAIN fl_parsed)
            = Cardinality(StoredLeaves(fl_row, max_parsing_depth))

\* the same for the records whose keys do not contain the separator
FlattenLosesNoValueWithoutSeparatorKeys ==
    fl_pc = "parsed" =>
        Cardinality(DOMAIN fl_parsed)
            = Cardinality(StoredLeaves(fl_row, max_parsing_depth))


\* ------------------------------------------------------------------------
\* Properties of the property-history enrichment
\* ------------------------------------------------------------------------

\* the (property, event) positions of the history of the item
HistoryOfItem ==
    IF hs_item.properties_with_history = <<>> THEN <<>>
    ELSE hs_item.properties_with_history[1]

RECURSIVE EventsBefore(_, _)
EventsBefore(history, k) ==
    IF k <= 1 THEN 0 ELSE EventsBefore(history, k - 1) + Len(history[k - 1].value)

EventCount(history) == EventsBefore(history, Len(history) + 1)

\* C32: with the enrichment enabled the property_history table holds
\* exactly one row per (property name, history event) of the record, each
\* tagged with the object kind and the id of the record; the main row has no
\* properties_with_history, properties or associations key; with the
\* enrichment disabled no history row is written.
C32_PropertyHistoryRows ==
    (hs_pc = "written") =>
        /\ DOMAIN hs_row \cap {"properties_with_history", "properties", "associations"} = {}
        /\ ~fetch_property_history => (property_history = <<>>)
        /\ fetch_property_history =>
              /\ Len(property_history) = EventCount(HistoryOfItem)
              /\ \A k \in 1..Len(HistoryOfItem) :
                    \A i \in 1..Len(HistoryOfItem[k].value) :
                        LET row == property_history[EventsBefore(HistoryOfItem, k) + i]
                            event == HistoryOfItem[k].value[i]
                        IN  /\ row.hs_object = hs_object_name
                            /\ row.hs_object_id = hs_item.id
                            /\ row.hs_object_property_name = HistoryOfItem[k].key
                            /\ row.value = event.value
                            /\ row.timestamp = event.timestamp
                            /\ row.source_type = event.source_type

\* a record with two properties of two events each has been written
C32_Witness ==
    /\ hs_pc = "written"
    /\ fetch_property_history
    /\ Len(HistoryOfItem) = 2
    /\ \A k \in 1..2 : Len(HistoryOfItem[k].value) = 2
    /\ Len(property_history) = 4
    /\ "email" \in DOMAIN hs_row


\* ------------------------------------------------------------------------
\* Properties of the getters of the CRM objects
\* ------------------------------------------------------------------------

\* the attribute path of the SDK client of a CRM object under client_v3
OwnClient ==
    [contact |-> "crm.contacts", company |-> "crm.companies", deal |-> "crm.deals",
     line_item |-> "crm.line_items", product |-> "crm.products", quote |-> "crm.quotes",
     ticket |-> "crm.tickets", note |-> "crm.objects.notes", call |-> "crm.objects.calls",
     task |-> "crm.objects.tasks", meeting |-> "crm.objects.meetings",
     email |-> "crm.objects.emails"]

\* the search request filters on the since-property >= since_date and sorts
\* by the same property, descending
FilteredAndSorted ==
    /\ Len(dp_call.filter_groups) = 1
    /\ Len(dp_call.filter_groups[1].filters) = 1
    /\ dp_call.filter_groups[1].filters[1].operator = "GTE"
    /\ dp_call.filter_groups[1].filters[1].value = dp_since_date
    /\ dp_call.sorts =
          <<[propertyName |-> dp_call.filter_groups[1].filters[1].propertyName,
             direction |-> "DESCENDING"]>>

OwnEndpoint ==
    IF dp_incremental
    THEN /\ dp_call.api = OwnClient[dp_object] \o ".search_api"
         /\ FilteredAndSorted
    ELSE dp_call.api = OwnClient[dp_object] \o ".basic_api"

\* C34: an incremental fetch of a CRM object sends its filtered and sorted
\* search request to the search API of that object, a full fetch pages the
\* basic API of that object; no fetch goes to the API of another object.
C34_FetchQueriesOwnEndpoint ==
    (dp_pc = "requested") => OwnEndpoint

\* the same, for every fetch but the incremental fetch of tickets
FetchQueriesOwnEndpointButTicketSearch ==
    (dp_pc = "requested" /\ ~(dp_object = "ticket" /\ dp_incremental)) => OwnEndpoint


\* ------------------------------------------------------------------------
\* An ApiException of the SDK call of a page
\* ------------------------------------------------------------------------

\* the SDK call of request i raised its ApiException
SdkCallRaised(i) ==
    /\ v3_path \in {"object", "search"}
    /\ i \in 1..Len(v3_responses)
    /\ v3_responses[i].outcome = "ApiException"

\* the pagination stopped at request i with the client error
StoppedWithClientError(i) ==
    /\ i = Len(v3_responses)
    /\ v3_pc = "raised"
    /\ v3_error = "HubspotClientException"
    /\ Len(v3_pages) = i - 1

\* C35: when the SDK call for an object page or a search page raises its
\* ApiException, whatever its status, the pagination stops there with a
\* HubspotClientException: the loop never reads results or paging of a page
\* that is missing.
C35_ApiExceptionBecomesClientError ==
    \A i \in 1..Len(v3_responses) : SdkCallRaised(i) => StoppedWithClientError(i)

\* the same for the exceptions whose status is an HTTP error status
ApiExceptionWithErrorStatusBecomesClientError ==
    \A i \in 1..Len(v3_responses) :
        (SdkCallRaised(i) /\ v3_responses[i].status_code \in 400..599)
            => StoppedWithClientError(i)


\* ------------------------------------------------------------------------
\* The column list of a closed table
\* ------------------------------------------------------------------------

\* C39: after a table handler is closed, the column list of its table
\* definition, written to the manifest, is the sequence of the final field
\* names of its writer, in the same order and without duplicates, whatever
\* rows were written, rows with columns absent from the opening list included.
C39_ClosedColumnsAreWriterFields ==
    (run_pc = "closed") =>
        \A h \in DOMAIN opened_with :
            /\ manifests[h] = state[h]
            /\ DuplicateFree(manifests[h])

\* a closed handler whose rows introduced a column absent from the opening
\* list, which is the last column of its manifest
C39_Witness ==
    /\ run_pc = "closed"
    /\ \E h \in DOMAIN opened_with :
          /\ Len(manifests[h]) > Len(opened_with[h])
          /\ manifests[h][Len(manifests[h])] \notin Range(opened_with[h])
          /\ manifests[h][Len(manifests[h])] \in row_columns[h]


\* ------------------------------------------------------------------------
\* The fetch window of consecutive runs
\* ------------------------------------------------------------------------

\* the successful runs before run r
SucceededBefore(r) == {q \in 1..(r - 1) : wn_runs_log[q].ended = "succeeded"}

Latest(S) == CHOOSE q \in S : \A p \in S : p <= q

\* last_run as the successful runs before run r left it: the start of the
\* latest of them, or 1990-01-01 when there is none
PersistedLastRunBefore(r) ==
    IF SucceededBefore(r) = {} THEN DEFAULT_DATE_FROM
    ELSE wn_runs_log[Latest(SucceededBefore(r))].started_at

LastRunFetch(f) == f.incremental /\ f.date_from = "last run"

\* C38: the last_run a successful run persists is the time taken at its
\* start; a run with date_from 'last run' fetches since last_run of the
\* previous successful run minus 3600000 ms (since 1990-01-01 minus 3600000 ms
\* when no state exists), so its window begins no later than any request of
\* that previous run: consecutive successful runs leave no gap.
C38_WindowFromPersistedLastRun ==
    /\ LET done == SucceededBefore(Len(wn_runs_log) + 1)
       IN  IF done = {} THEN "last_run" \notin DOMAIN wn_state_file
           ELSE /\ "last_run" \in DOMAIN wn_state_file
                /\ wn_state_file["last_run"] = wn_runs_log[Latest(done)].started_at
    /\ \A i \in 1..Len(wn_fetches) :
          LET f == wn_fetches[i] IN
          LastRunFetch(f) =>
              /\ f.since_date = PersistedLastRunBefore(f.run) - LAST_RUN_MARGIN
              /\ \A j \in 1..Len(wn_fetches) :
                    ( /\ SucceededBefore(f.run) # {}
                      /\ wn_fetches[j].run = Latest(SucceededBefore(f.run)) )
                        => f.since_date <= wn_fetches[j].at

\* the second of two successful runs, started later than the first, has
\* fetched with date_from 'last run'
C38_Witness ==
    /\ Len(wn_runs_log) = 2
    /\ wn_runs_log[1].ended = "succeeded"
    /\ wn_runs_log[2].ended = "succeeded"
    /\ wn_runs_log[1].started_at < wn_runs_log[2].started_at
    /\ \E i \in 1..Len(wn_fetches) :
          /\ wn_fetches[i].run = 2
          /\ LastRunFetch(wn_fetches[i])
          /\ wn_fetches[i].since_date = wn_runs_log[1].started_at - LAST_RUN_MARGIN
    /\ wn_state_file["last_run"] = wn_runs_log[2].started_at


\* ------------------------------------------------------------------------
\* Active records are written once
\* ------------------------------------------------------------------------

\* the passes of a kind that requested the active partition and wrote a page
ActivePassesWritten(kind) ==
    {i \in 1..Len(fetch_passes[kind]) :
        fetch_passes[kind][i].partition = "active" /\ fetch_passes[kind][i].pages >= 1}

\* the pages of active records in the table of the kind are those of one pass
ActiveWrittenOnce(kind) ==
    /\ Cardinality(ActivePassesWritten(kind)) <= 1
    /\ kind \in DOMAIN sync_cache =>
          \A i \in ActivePassesWritten(kind) :
              Len(SelectSeq(sync_cache[kind].rows, LAMBDA partition : partition = "active"))
                  = fetch_passes[kind][i].pages

\* C33: in full fetch mode with archived requested, the active records of a
\* CRM object kind are written to its table once, also for the kinds whose
\* client method resets the archived flag.
C33_ActiveRecordsWrittenOnce ==
    (~IncrementalFetch /\ configuration.archived) =>
        \A kind \in DOMAIN fetch_passes : ActiveWrittenOnce(kind)

\* the same, for the kinds whose client method hands the archived flag on
ActiveRecordsWrittenOnceWhereSupported ==
    (~IncrementalFetch /\ configuration.archived) =>
        \A kind \in (DOMAIN fetch_passes) \ ArchivedNotSupported : ActiveWrittenOnce(kind)


\* ------------------------------------------------------------------------
\* The source ids of the association batch reads
\* ------------------------------------------------------------------------

\* the ids of the records of the pages that the passes from the i-th on
\* fetched and wrote, in written order
RECURSIVE IdsWrittenFrom(_, _)
IdsWrittenFrom(passes, i) ==
    IF i > Len(passes) THEN <<>>
    ELSE [page \in 1..passes[i].pages |-> RecordId(passes[i].partition, page)]
            \o IdsWrittenFrom(passes, i + 1)

RECURSIVE PagesFetchedOf(_)
PagesFetchedOf(kinds) ==
    IF kinds = {} THEN 0
    ELSE LET kind == CHOOSE k \in kinds : TRUE
         IN  Len(IdsWrittenFrom(fetch_passes[kind], 1)) + PagesFetchedOf(kinds \ {kind})

\* the ids of the batch reads of an association, one batch after the other
RECURSIVE IdsSentFrom(_, _)
IdsSentFrom(association, i) ==
    IF i > Len(association_requests) THEN <<>>
    ELSE (IF association_requests[i].association = association
             THEN association_requests[i].ids ELSE <<>>)
            \o IdsSentFrom(association, i + 1)

IsPrefix(short, long) ==
    Len(short) <= Len(long) /\ SubSeq(long, 1, Len(short)) = short

AssociationsBegun ==
    {association_requests[i].association : i \in 1..Len(association_requests)}
        \cup (IF sync_association = NoAssociation THEN {} ELSE {sync_association})

\* C31: the association resolution of a from-kind begins only after the pull
\* of the kind has finished and its table has been closed; the ids of its
\* batch reads are the ids of the rows written to that table in this run, in
\* written order; and while associations are resolved no request re-fetches
\* objects: the requests of the run are its page fetches and its batch reads.
C31_AssociationIdsFromWrittenTable ==
    /\ \A association \in AssociationsBegun :
          LET written == IdsWrittenFrom(fetch_passes[association.from_object], 1)
              sent == IdsSentFrom(association, 1)
          IN  /\ PullCompleted(association.from_object)
              /\ IsPrefix(sent, written)
              /\ (association # sync_association /\ sync_error = None) => sent = written
    /\ (sync_pc \in {"associating", "closed"}) =>
          sync_requests = PagesFetchedOf(DOMAIN fetch_passes) + Len(association_requests)

\* the batch reads of an association of contacts have sent the ids of the
\* archived and of the active contacts written before
C31_Witness ==
    /\ sync_pc = "closed"
    /\ Len(association_requests) = 2
    /\ association_requests[1].ids = <<RecordId("archived", 1)>>
    /\ association_requests[2].ids = <<RecordId("active", 1)>>
    /\ Len(fetch_passes["contact"]) = 2

====
